---- MODULE Spec2Model ----
(***************************************************************************)
(* Fund NAV acquisition and caching pipeline (v3.3 src/fund_data.py).      *)
(* Calendar days are integers; a DataFrame is a sequence of rows           *)
(* [date, nav]; the cache of one fund code is the pair of files            *)
(* <code>.csv and <code>_meta.json.  Spec runs the orchestrator            *)
(* get_fund_data with its cache; FetchSpec runs fetch_fund_data_from_api   *)
(* alone on longer histories; PagerSpec and LegacySpec run the v2.1        *)
(* fetchers (_fetch_fund_data, the segmented get_fund_data); InfoSpec runs *)
(* get_fund_info; MetricsSpec runs the metrics of fund_analysis.py and of  *)
(* display_fund_analysis; RateSpec runs every fetcher for its requests and *)
(* sleeps; RaceSpec runs get_fund_data in two processes, one file-system   *)
(* operation per step, on a cache directory of several fund codes;         *)
(* LoopSpec runs the paging loops one iteration per step; FavSpec runs the *)
(* favorites of the dashboard (src/app/main.py), one UI event per step;    *)
(* SnakeSpec runs the main loop of snake_game.py, one frame per step.      *)
(***************************************************************************)
EXTENDS Integers, Sequences, FiniteSets, TLC

\* ---------------------------------------------------------------- bounds
StartDay == 30          \* the calendar day the exploration starts on
MaxHist == 21           \* rows of the longest initial remote history
PostedNav == 12         \* the nav of a row the source posts during the run
RevisedNav == 13        \* the nav the source revises a posted row to
MaxEvents == 2          \* posts, revisions and file damages explored in one run
FetchDay == 120         \* the day the fetchers are exercised on alone
MaxRows == 76           \* rows of the longest remote history fetched alone
MaxFaultPage == 4       \* the last page a fault is injected into
LegacyDay == 190       \* the day the v2.1 fetcher is exercised on
MaxSpan == 184          \* the widest window (end - start) asked of the v2.1 fetcher
MaxScript == 3          \* pages of the longest scripted answer of the source
MaxSeries == 4          \* rows of the longest series every nav of which is chosen
MaxYield == 9           \* rows of the longest series of daily yields
MaxPick == 6            \* the date pickers reach this many days past the first row
MaxSegRows == 102       \* rows of the longest history asked of fetch_fund_data_segment
ShortPage == 1          \* rows of a scripted page that is not full
MaxDatas == 2           \* items of the longest answer of the fund search

\* ------------------------------------------------------ program constants
per_page == 20          \* fetch_fund_data_from_api: per_page = 20
NaN == 0                \* pandas NaN (to_numeric(errors='coerce')); navs are > 0
per_page_v21 == 20      \* v2.1 _fetch_fund_data: per_page = 20
SegmentDays == 90       \* v2.1 get_fund_data: timedelta(days=90)

\* ------------------------------------------------------------ data frames
EmptyFrame == << >>

Row(d, n) == [date |-> d, nav |-> n]

Dates(df) == {df[i].date : i \in 1..Len(df)}

MaxOf(S) == CHOOSE x \in S : \A y \in S : y <= x
MinOf(S) == CHOOSE x \in S : \A y \in S : x <= y

\* pd.concat([a, b], ignore_index=True)
Concat(a, b) == a \o b

\* DataFrame.dropna(subset=['date','nav'])
Dropna(df) == SelectSeq(df, LAMBDA r : r.nav # NaN)

\* DataFrame.drop_duplicates(subset=['date']): keep='first': a row stays
\* when no row above it has its date
DropDuplicates(df) ==
  LET first == SelectSeq([i \in 1..Len(df) |-> i],
                         LAMBDA i : \A j \in 1..(i - 1) : df[j].date # df[i].date)
  IN [k \in 1..Len(first) |-> df[first[k]]]

\* DataFrame.sort_values('date'): ascending by date; a row is moved only
\* in front of rows of a strictly larger date, so ties keep their order
SortValues(df) == SortSeq(df, LAMBDA a, b : a.date < b.date)

\* ------------------------------------------------------- remote endpoint
NoDate == [kind |-> "none", d |-> 0]
DateStr(d) == [kind |-> "str", d |-> d]      \* strftime('%Y-%m-%d')
BadDateStr == [kind |-> "bad", d |-> 0]      \* a string that is no date

\* the URL of one page request of fetch_fund_data_from_api: it carries the
\* fund code, per and page, and neither sdate nor edate
ApiUrl(page) == [per |-> per_page, page |-> page, sdate |-> NoDate, edate |-> NoDate]

InWindow(r, url) ==
  /\ (url.sdate.kind = "str" => r.date >= url.sdate.d)
  /\ (url.edate.kind = "str" => r.date <= url.edate.d)

\* F10DataApi.aspx?type=lsjz: the rows of the window the URL names (all rows
\* when it names none), newest first, cut into pages of url.per rows; a page
\* past the last row answers "暂无数据"
Endpoint(rows, url) ==
  LET hit == SelectSeq(rows, LAMBDA r : InWindow(r, url))
      lo  == (url.page - 1) * url.per + 1
      hi  == IF url.page * url.per < Len(hit) THEN url.page * url.per ELSE Len(hit)
  IN IF lo > hi THEN [kind |-> "nodata", rows |-> << >>]
     ELSE [kind |-> "table", rows |-> SubSeq(hit, lo, hi)]

NoFault == [page |-> 0, kind |-> "none"]

\* requests.get(url) followed by pd.read_html: the fault, if any, hits the
\* request of its page ("error": requests.get raises; "unparsable":
\* read_html finds no table)
RequestsGet(rows, url, fault) ==
  IF fault.page = url.page THEN [kind |-> fault.kind, rows |-> << >>]
  ELSE Endpoint(rows, url)

GetEv(url) == [ev |-> "get", url |-> url]
SleepEv == [ev |-> "sleep", url |-> ApiUrl(0)]

\* FetchLoop with a seeded fault: a page of per_page rows is taken for the
\* last one (<= in place of <)
RECURSIVE FetchLoopStopsAtFull(_, _, _, _, _)
FetchLoopStopsAtFull(rows, fault, all_data, page, trace) ==
  LET url  == ApiUrl(page)
      resp == RequestsGet(rows, url, fault)
      tr   == Append(trace, GetEv(url))
  IN IF resp.kind \in {"error", "unparsable"}
     THEN IF page = 1
          THEN [ret |-> TRUE, all_data |-> EmptyFrame, trace |-> tr]
          ELSE [ret |-> FALSE, all_data |-> all_data, trace |-> tr]
     ELSE IF resp.kind = "nodata" \/ resp.rows = << >>
     THEN [ret |-> FALSE, all_data |-> all_data, trace |-> tr]
     ELSE LET all2 == Concat(all_data, resp.rows)
          IN IF Len(resp.rows) <= per_page
             THEN [ret |-> FALSE, all_data |-> all2, trace |-> tr]
             ELSE FetchLoopStopsAtFull(rows, fault, all2, page + 1, Append(tr, SleepEv))

\* FetchLoop with a seeded fault: a failure of a later page returns the empty
\* frame as a failure of the first page does
RECURSIVE FetchLoopDiscards(_, _, _, _, _)
FetchLoopDiscards(rows, fault, all_data, page, trace) ==
  LET url  == ApiUrl(page)
      resp == RequestsGet(rows, url, fault)
      tr   == Append(trace, GetEv(url))
  IN IF resp.kind \in {"error", "unparsable"}
     THEN [ret |-> TRUE, all_data |-> EmptyFrame, trace |-> tr]
     ELSE IF resp.kind = "nodata" \/ resp.rows = << >>
     THEN [ret |-> FALSE, all_data |-> all_data, trace |-> tr]
     ELSE LET all2 == Concat(all_data, resp.rows)
          IN IF Len(resp.rows) < per_page
             THEN [ret |-> FALSE, all_data |-> all2, trace |-> tr]
             ELSE FetchLoopDiscards(rows, fault, all2, page + 1, Append(tr, SleepEv))

\* FetchLoop with a seeded fault: the next page is requested without the
\* time.sleep(0.5)
RECURSIVE FetchLoopNoSleep(_, _, _, _, _)
FetchLoopNoSleep(rows, fault, all_data, page, trace) ==
  LET url  == ApiUrl(page)
      resp == RequestsGet(rows, url, fault)
      tr   == Append(trace, GetEv(url))
  IN IF resp.kind \in {"error", "unparsable"}
     THEN IF page = 1
          THEN [ret |-> TRUE, all_data |-> EmptyFrame, trace |-> tr]
          ELSE [ret |-> FALSE, all_data |-> all_data, trace |-> tr]
     ELSE IF resp.kind = "nodata" \/ resp.rows = << >>
     THEN [ret |-> FALSE, all_data |-> all_data, trace |-> tr]
     ELSE LET all2 == Concat(all_data, resp.rows)
          IN IF Len(resp.rows) < per_page
             THEN [ret |-> FALSE, all_data |-> all2, trace |-> tr]
             ELSE FetchLoopNoSleep(rows, fault, all2, page + 1, tr)

\* the while-loop of fetch_fund_data_from_api; ret = TRUE is the early
\* `return pd.DataFrame()` of a first-page failure
RECURSIVE FetchLoop(_, _, _, _, _)
FetchLoop(rows, fault, all_data, page, trace) ==
  LET url  == ApiUrl(page)
      resp == RequestsGet(rows, url, fault)
      tr   == Append(trace, GetEv(url))
  IN IF resp.kind \in {"error", "unparsable"}
     THEN IF page = 1
          THEN [ret |-> TRUE, all_data |-> EmptyFrame, trace |-> tr]
          ELSE [ret |-> FALSE, all_data |-> all_data, trace |-> tr]
     ELSE IF resp.kind = "nodata" \/ resp.rows = << >>
     THEN [ret |-> FALSE, all_data |-> all_data, trace |-> tr]
     ELSE LET all2 == Concat(all_data, resp.rows)
          IN IF Len(resp.rows) < per_page
             THEN [ret |-> FALSE, all_data |-> all2, trace |-> tr]
             ELSE FetchLoop(rows, fault, all2, page + 1, Append(tr, SleepEv))

\* fetch_fund_data_from_api with a seeded fault: a failure of the first page
\* is raised to the caller
fetch_fund_data_from_api_raises(rows, start_date, end_date, fault) ==
  LET loop == FetchLoop(rows, fault, EmptyFrame, 1, << >>)
      cleaned == DropDuplicates(SortValues(Dropna(loop.all_data)))
  IN IF loop.ret \/ (loop.all_data # EmptyFrame /\ cleaned = EmptyFrame)
     THEN [exc |-> TRUE, df |-> EmptyFrame, trace |-> loop.trace]
     ELSE [exc |-> FALSE, df |-> cleaned, trace |-> loop.trace]

\* fetch_fund_data_from_api(fund_code, start_date, end_date); exc = TRUE is
\* the ValueError of NaT.strftime when dropna leaves no row
fetch_fund_data_from_api(rows, start_date, end_date, fault) ==
  LET loop == FetchLoop(rows, fault, EmptyFrame, 1, << >>)
      cleaned == DropDuplicates(SortValues(Dropna(loop.all_data)))
  IN IF loop.ret
     THEN [exc |-> FALSE, df |-> EmptyFrame, trace |-> loop.trace]
     ELSE IF loop.all_data # EmptyFrame
     THEN IF cleaned = EmptyFrame
          THEN [exc |-> TRUE, df |-> EmptyFrame, trace |-> loop.trace]
          ELSE [exc |-> FALSE, df |-> cleaned, trace |-> loop.trace]
     ELSE [exc |-> FALSE, df |-> EmptyFrame, trace |-> loop.trace]

\* ------------------------------------------------------------ cache files
Absent == [kind |-> "absent"]
Corrupt == [kind |-> "corrupt"]

\* df.to_csv(cache_file, index=False): one text line per row, columns
\* date,nav in this order
to_csv(df) == [kind |-> "csv", lines |-> [i \in 1..Len(df) |-> <<df[i].date, df[i].nav>>]]

\* read_csv with a seeded fault: the first data line is taken for the header
read_csv_skiprow(file) ==
  [i \in 1..(Len(file.lines) - 1) |-> Row(file.lines[i + 1][1], file.lines[i + 1][2])]

\* pd.read_csv(cache_file) and pd.to_datetime(df['date'])
read_csv(file) == [i \in 1..Len(file.lines) |-> Row(file.lines[i][1], file.lines[i][2])]

\* the meta_data dictionary of save_fund_data_to_cache
MetaOf(df, now) ==
  [kind |-> "json", last_update |-> now, data_count |-> Len(df),
   date_range |-> [start |-> MinOf(Dates(df)), end |-> MaxOf(Dates(df))]]

\* IsToday with a seeded fault: the stamp is never taken for today's
IsTodayNever(last_update, now) == last_update > now

\* last_update.date() == current_time.date()
IsToday(last_update, now) == last_update = now

\* get_cached_fund_data with a seeded fault: files that cannot be read are
\* left on disk
get_cached_fund_data_noremove(csv, meta, now) ==
  IF csv.kind = "csv" /\ meta.kind = "json"
  THEN [found |-> TRUE, df |-> read_csv(csv),
        is_today |-> IsToday(meta.last_update, now), csv |-> csv, meta |-> meta]
  ELSE [found |-> FALSE, df |-> EmptyFrame, is_today |-> FALSE,
        csv |-> csv, meta |-> meta]

\* get_cached_fund_data(fund_code): (df, is_today) or (None, False), and the
\* files it leaves
get_cached_fund_data(csv, meta, now) ==
  IF csv.kind # "absent" /\ meta.kind # "absent"
  THEN IF csv.kind = "corrupt" \/ meta.kind = "corrupt"
       THEN [found |-> FALSE, df |-> EmptyFrame, is_today |-> FALSE,
             csv |-> Absent, meta |-> Absent]
       ELSE [found |-> TRUE, df |-> read_csv(csv),
             is_today |-> IsToday(meta.last_update, now),
             csv |-> csv, meta |-> meta]
  ELSE [found |-> FALSE, df |-> EmptyFrame, is_today |-> FALSE,
        csv |-> csv, meta |-> meta]

\* save_fund_data_to_cache with a seeded fault: to_csv(mode='a') adds the
\* rows to the file that is there
save_fund_data_append(csv, meta, df, now, wfault) ==
  LET old == IF csv.kind = "csv" THEN csv.lines ELSE << >>
  IN IF wfault = "csv" THEN [csv |-> csv, meta |-> meta]
     ELSE IF wfault = "meta" \/ df = EmptyFrame
     THEN [csv |-> [kind |-> "csv", lines |-> old \o to_csv(df).lines], meta |-> meta]
     ELSE [csv |-> [kind |-> "csv", lines |-> old \o to_csv(df).lines],
           meta |-> MetaOf(df, now)]

\* save_fund_data_to_cache(fund_code, df); wfault names the write that
\* raises ("csv": to_csv, "meta": the metadata write), the exception is
\* swallowed; for an empty df line 108 raises (NaT.strftime) after to_csv
save_fund_data_to_cache(csv, meta, df, now, wfault) ==
  IF wfault = "csv" THEN [csv |-> csv, meta |-> meta]
  ELSE IF wfault = "meta" \/ df = EmptyFrame THEN [csv |-> to_csv(df), meta |-> meta]
  ELSE [csv |-> to_csv(df), meta |-> MetaOf(df, now)]

\* ---------------------------------------------------------- forward fill
\* df.set_index('date').reindex(pd.date_range(min, max, freq='D'))
Reindex(df, lo, hi) ==
  LET index == Dates(df)
  IN [i \in 1..(hi - lo + 1) |->
        LET d == lo + i - 1
        IN IF d \in index
           THEN df[CHOOSE k \in 1..Len(df) : df[k].date = d]
           ELSE Row(d, NaN)]

\* DataFrame.ffill(): a NaN takes the last valid value above it
ffill(df) ==
  [i \in 1..Len(df) |->
     IF df[i].nav # NaN \/ \A j \in 1..i : df[j].nav = NaN
     THEN df[i]
     ELSE LET back == CHOOSE m \in 1..(i - 1) :
                        /\ df[i - m].nav # NaN
                        /\ \A k \in 1..(m - 1) : df[i - k].nav = NaN
          IN Row(df[i].date, df[i - back].nav)]

\* lines 166-171 of get_fund_data
FillMissing(df) == ffill(Reindex(df, MinOf(Dates(df)), MaxOf(Dates(df))))

\* ------------------------------------------------------------ orchestrator
\* the value get_fund_data hands back, with what it did on the way:
\* exc (an exception leaves the function), df (the returned frame),
\* unfilled (df before lines 166-171), the files, the page requests and
\* sleeps, the branch taken, the frame fetched, whether a save was called
Out(exc, df, unfilled, csv, meta, trace, branch, new_data, saved) ==
  [exc |-> exc, handled |-> FALSE, df |-> df, unfilled |-> unfilled,
   csv |-> csv, meta |-> meta, trace |-> trace, branch |-> branch, new_data |-> new_data, saved |-> saved]

\* an exception raised inside the try block of get_fund_data
Raise(csv, meta, trace, branch) ==
  Out(TRUE, EmptyFrame, EmptyFrame, csv, meta, trace, branch, EmptyFrame, FALSE)

\* lines 166-173: fill when asked and df is not empty, then return df
Finish(df, fill_missing, csv, meta, trace, branch, new_data, saved) ==
  Out(FALSE,
      IF fill_missing /\ df # EmptyFrame THEN FillMissing(df) ELSE df,
      df, csv, meta, trace, branch, new_data, saved)

\* Merge with a seeded fault: the rows fetched replace the cached ones
MergeNewOnly(cached_data, new_data) == SortValues(DropDuplicates(new_data))

\* Merge with a seeded fault: no drop_duplicates
MergeNoDedup(cached_data, new_data) == SortValues(Concat(cached_data, new_data))

\* lines 148-149: pd.concat([cached_data, new_data], ignore_index=True) then
\* drop_duplicates(subset=['date']).sort_values('date')
Merge(cached_data, new_data) ==
  SortValues(DropDuplicates(Concat(cached_data, new_data)))

\* NeedsUpdate with a seeded fault: >= in place of >
NeedsUpdateGe(current_date, last_cache_date) == current_date >= last_cache_date

\* line 140: current_date.date() > last_cache_date.date()
NeedsUpdate(current_date, last_cache_date) == current_date > last_cache_date

\* lines 130-133: the early return of today's cache
ReturnCached(c) ==
  Out(FALSE, c.df, c.df, c.csv, c.meta, << >>, "fresh", EmptyFrame, FALSE)

\* lines 146-152: new rows came: merge them into the cache and save it
MergeAndSave(c, new_data, now, wfault) ==
  LET df == Merge(c.df, new_data)
      s  == save_fund_data_to_cache(c.csv, c.meta, df, now, wfault)
  IN [df |-> df, csv |-> s.csv, meta |-> s.meta, saved |-> TRUE]

\* KeepCache with a seeded fault: the cache is saved again although nothing came
KeepCacheResave(c, now, wfault) ==
  LET s == save_fund_data_to_cache(c.csv, c.meta, c.df, now, wfault)
  IN [df |-> c.df, csv |-> s.csv, meta |-> s.meta, saved |-> TRUE]

\* lines 153-158: no new rows, or none asked for: df = cached_data
KeepCache(c, now, wfault) ==
  [df |-> c.df, csv |-> c.csv, meta |-> c.meta, saved |-> FALSE]

\* SaveFetched with a seeded fault: the history is returned without being saved
SaveFetchedNever(c, new_data, now, wfault) ==
  [df |-> new_data, csv |-> c.csv, meta |-> c.meta, saved |-> FALSE]

\* lines 162-164: the full history, saved when it is not empty
SaveFetched(c, new_data, now, wfault) ==
  LET s == save_fund_data_to_cache(c.csv, c.meta, new_data, now, wfault)
  IN IF new_data # EmptyFrame
     THEN [df |-> new_data, csv |-> s.csv, meta |-> s.meta, saved |-> TRUE]
     ELSE [df |-> new_data, csv |-> c.csv, meta |-> c.meta, saved |-> FALSE]

\* the try block of get_fund_data (lines 123-173)
get_fund_data_try(csv, meta, rows, now, fill_missing, end_date, fault, wfault) ==
  LET end == IF end_date.kind = "none" THEN DateStr(now) ELSE end_date
      c   == get_cached_fund_data(csv, meta, now)
  IN IF c.found
     THEN IF c.is_today THEN ReturnCached(c)
          ELSE IF end.kind = "bad"
          THEN Raise(c.csv, c.meta, << >>, "stale")
          ELSE LET last_cache_date == MaxOf(Dates(c.df))
               IN IF NeedsUpdate(end.d, last_cache_date)
                  THEN LET f == fetch_fund_data_from_api(
                                  rows, DateStr(last_cache_date + 1), end, fault)
                           r == IF f.df # EmptyFrame
                                THEN MergeAndSave(c, f.df, now, wfault)
                                ELSE KeepCache(c, now, wfault)
                       IN IF f.exc THEN Raise(c.csv, c.meta, f.trace, "stale")
                          ELSE Finish(r.df, fill_missing, r.csv, r.meta, f.trace,
                                      "stale", f.df, r.saved)
                  ELSE LET r == KeepCache(c, now, wfault)
                       IN Finish(r.df, fill_missing, r.csv, r.meta, << >>,
                                 "stale", EmptyFrame, r.saved)
     ELSE LET f == fetch_fund_data_from_api(rows, NoDate, NoDate, fault)
              r == SaveFetched(c, f.df, now, wfault)
          IN IF f.exc THEN Raise(c.csv, c.meta, f.trace, "miss")
             ELSE Finish(r.df, fill_missing, r.csv, r.meta, f.trace,
                         "miss", f.df, r.saved)

\* OuterExcept with a seeded fault: no handler, the exception reaches the caller
OuterExceptNone(out) == out

\* lines 175-177: except Exception: return pd.DataFrame()
OuterExcept(out) ==
  IF out.exc THEN [out EXCEPT !.exc = FALSE, !.handled = TRUE, !.df = EmptyFrame]
  ELSE out

\* get_fund_data(fund_code, start_date, end_date, fill_missing)
get_fund_data(csv, meta, rows, now, fill_missing, end_date, fault, wfault) ==
  OuterExcept(get_fund_data_try(csv, meta, rows, now, fill_missing, end_date,
                                fault, wfault))

\* ------------------------------------------------------------------ state
VARIABLES
  today,    \* datetime.datetime.now().date()
  remote,   \* the rows the remote source holds for the fund, newest first
  csv,      \* data/fund_cache/<code>.csv
  meta,     \* data/fund_cache/<code>_meta.json
  call,     \* the get_fund_data call just made: arguments, files before, outcome
  events,   \* environment events so far (bounded by MaxEvents)
  prev      \* when `call` is an immediate repetition: the frame the first call
            \* returned and whether a fault was injected into it

vars == <<today, remote, csv, meta, call, prev, events>>

\* the clock is not advanced beyond this day
MaxDay == StartDay + 1

IsWeekday(d) == d % 7 \notin {6, 0}

\* the source's history before StartDay: one row per weekday, newest first
RECURSIVE HistoryFrom(_, _)
HistoryFrom(d, k) ==
  IF d < 1 \/ k = 0 THEN << >>
  ELSE IF IsWeekday(d) THEN <<Row(d, 10 + (d % 2))>> \o HistoryFrom(d - 1, k - 1)
       ELSE HistoryFrom(d - 1, k)

History(k) == HistoryFrom(StartDay - 1, k)

NoCall == [valid |-> FALSE]

EndDateArgs == {NoDate, BadDateStr, DateStr(StartDay - 1)}

Faults == {NoFault} \cup [page : {1, 2}, kind : {"error", "unparsable"}]

WFaults == {"none", "csv", "meta"}

Init ==
  /\ today = StartDay
  /\ remote \in {History(0), History(MaxHist)}
  /\ csv = Absent
  /\ meta = Absent
  /\ call = NoCall
  /\ prev = NoCall
  /\ events = 0

Requests(trace) == SelectSeq(trace, LAMBDA e : e.ev = "get")

\* a call of get_fund_data(fund_code, end_date=..., fill_missing=...) by the
\* presentation layer, with the faults the environment injects into it (a
\* fault that no request or write of the call meets is left out).  While the
\* outcome of a call is still held in `call`, the only call explored is its
\* immediate repetition: same arguments, same day, same remote rows, no fault
GetFundData ==
  \E fill_missing \in BOOLEAN, end_date \in EndDateArgs,
     fault \in Faults, wfault \in WFaults :
    /\ call.valid =>
         /\ ~prev.valid
         /\ fill_missing = call.fill_missing /\ end_date = call.end_date
         /\ fault = NoFault /\ wfault = "none"
    /\ \E out \in {get_fund_data(csv, meta, remote, today, fill_missing,
                                 end_date, fault, wfault)} :
         LET hit == \E i \in 1..Len(out.trace) :
                      out.trace[i].ev = "get" /\ out.trace[i].url.page = fault.page
         IN /\ (~hit => fault = NoFault)
            /\ (~out.saved => wfault = "none")
            /\ csv' = out.csv
            /\ meta' = out.meta
            /\ call' = [valid |-> TRUE, fill_missing |-> fill_missing,
                        end_date |-> end_date, fault |-> fault, wfault |-> wfault,
                        csv |-> csv, meta |-> meta, out |-> out]
            /\ prev' = IF call.valid
                       THEN [valid |-> TRUE, df |-> call.out.df,
                             faulted |-> call.fault # NoFault \/ call.wfault # "none"]
                       ELSE NoCall
            /\ UNCHANGED <<today, remote, events>>

\* the presentation layer is done with the frame it was handed
Return ==
  /\ call.valid
  /\ call' = NoCall /\ prev' = NoCall
  /\ UNCHANGED <<today, remote, csv, meta, events>>

\* midnight
Tick ==
  /\ ~call.valid
  /\ today < MaxDay
  /\ today' = today + 1
  /\ UNCHANGED <<remote, csv, meta, call, prev, events>>

\* the source posts today's row (a nav, or a text that is no number)
RemotePost ==
  /\ ~call.valid
  /\ events < MaxEvents /\ events' = events + 1
  /\ \A i \in 1..Len(remote) : remote[i].date # today
  /\ \E n \in {PostedNav, NaN} : remote' = <<Row(today, n)>> \o remote
  /\ UNCHANGED <<today, csv, meta, call, prev>>

\* the source revises the nav of its newest row
RemoteRevise ==
  /\ ~call.valid
  /\ events < MaxEvents /\ events' = events + 1
  /\ remote # << >>
  /\ Head(remote).nav \notin {RevisedNav, NaN}
  /\ remote' = <<Row(Head(remote).date, RevisedNav)>> \o Tail(remote)
  /\ UNCHANGED <<today, csv, meta, call, prev>>

\* a cache file is damaged on disk
CorruptCache ==
  /\ ~call.valid
  /\ events < MaxEvents /\ events' = events + 1
  /\ \/ csv.kind = "csv" /\ csv' = Corrupt /\ meta' = meta
     \/ meta.kind = "json" /\ meta' = Corrupt /\ csv' = csv
  /\ UNCHANGED <<today, remote, call, prev>>

Next ==
  \/ GetFundData
  \/ Return
  \/ Tick
  \/ RemotePost
  \/ RemoteRevise
  \/ CorruptCache

Spec == Init /\ [][Next]_vars

\* ----------------------------------------------------------------- claims
\* what the call found on disk
Readable(c, m) == c.kind = "csv" /\ m.kind = "json"
CachedBefore == read_csv(call.csv)
FreshBefore == call.valid /\ Readable(call.csv, call.meta) /\ call.meta.last_update = today
StaleBefore == call.valid /\ Readable(call.csv, call.meta) /\ call.meta.last_update # today
MissBefore == call.valid /\ ~Readable(call.csv, call.meta)

\* the end of the window the call asks for: end_date, today when none is given
EndOfCall == IF call.end_date.kind = "none" THEN DateStr(today) ELSE call.end_date

Ascending(df) == \A i \in 1..(Len(df) - 1) : df[i].date < df[i + 1].date
NoNaN(df) == \A i \in 1..Len(df) : df[i].nav # NaN
NavAt(df, d) == df[CHOOSE k \in 1..Len(df) : df[k].date = d].nav

\* C1: two calls on the same day with the same arguments and no change of the
\* remote rows in between: the second returns the frame the first returned
\* and sends no page request (stated for a first call that met no fault and
\* returned rows)
C1_Idempotent ==
  (call.valid /\ prev.valid /\ ~prev.faulted /\ prev.df # EmptyFrame) =>
    /\ call.out.df = prev.df
    /\ Requests(call.out.trace) = << >>

\* C2: a readable cache entry whose last_update is today is returned as it
\* is, with no page request and no cache write
C2_SameDayReuse ==
  FreshBefore =>
    /\ call.out.df = CachedBefore
    /\ call.out.trace = << >>
    /\ ~call.out.saved
    /\ csv = call.csv /\ meta = call.meta

\* C2 is exercised: a same-day entry of several rows, asked with fill_missing
C2_Witness ==
  /\ FreshBefore
  /\ call.fill_missing
  /\ Len(call.out.df) > 1

\* C3 as stated: a readable stale entry always makes the call send page
\* requests, also when the cached maximum date is not before the end date
C3_StaleAlwaysFetches ==
  (StaleBefore /\ call.end_date.kind # "bad") =>
    Requests(call.out.trace) # << >>

\* C3 amended: a readable stale entry makes the call send page requests
\* exactly when the end date of the call (today when none is given) is later
\* than the cached maximum date; otherwise the cached frame is used and no
\* request is sent
C3_StaleFetchIffBehind ==
  (StaleBefore /\ call.end_date.kind # "bad") =>
    /\ Requests(call.out.trace) # << >> <=> EndOfCall.d > MaxOf(Dates(CachedBefore))
    /\ Requests(call.out.trace) = << >> =>
         /\ call.out.unfilled = CachedBefore
         /\ csv = call.csv /\ meta = call.meta

\* C3 is exercised: a stale entry whose maximum date is not before the end
\* date, used without a request
C3_Witness ==
  /\ StaleBefore
  /\ call.end_date.kind = "str"
  /\ call.end_date.d <= MaxOf(Dates(CachedBefore))
  /\ call.out.trace = << >>
  /\ call.out.df = CachedBefore

\* C4: on a stale entry with maximum date D the page requests carry the
\* window [D+1, end] and every fetched row is dated after D and not after
\* the end
C4_IncrementalWindow ==
  (StaleBefore /\ Requests(call.out.trace) # << >>) =>
    LET D == MaxOf(Dates(CachedBefore))
        reqs == Requests(call.out.trace)
    IN /\ \A i \in 1..Len(reqs) :
            /\ reqs[i].url.sdate = DateStr(D + 1)
            /\ reqs[i].url.edate = EndOfCall
       /\ \A i \in 1..Len(call.out.new_data) :
            /\ call.out.new_data[i].date > D
            /\ call.out.new_data[i].date <= EndOfCall.d

\* C5: a fetched row whose date is already cached with another nav: the
\* merged frame carries the fetched nav
C5_FreshWins ==
  (StaleBefore /\ call.out.new_data # EmptyFrame) =>
    \A i \in 1..Len(call.out.new_data) :
      NavAt(call.out.unfilled, call.out.new_data[i].date) = call.out.new_data[i].nav

\* C6: the merge of a stale cached frame with a non-empty fetched frame holds
\* every cached date and every fetched date, once each, ascending; it is the
\* frame handed to the cache write and (when no fill is asked) returned
C6_MergeCorrect ==
  (StaleBefore /\ call.out.new_data # EmptyFrame) =>
    LET m == call.out.unfilled
    IN /\ Dates(m) = Dates(CachedBefore) \cup Dates(call.out.new_data)
       /\ Ascending(m)
       /\ call.out.saved
       /\ ~call.fill_missing => call.out.df = m
       /\ call.wfault = "none" => csv.kind = "csv" /\ read_csv(csv) = m

\* C6 is exercised: a merge of fetched rows that are partly cached already
\* and partly new, written to the cache
C6_Witness ==
  /\ StaleBefore
  /\ call.out.new_data # EmptyFrame
  /\ Dates(call.out.new_data) \ Dates(CachedBefore) # {}
  /\ Dates(call.out.new_data) \cap Dates(CachedBefore) # {}
  /\ call.wfault = "none"

\* C7: with fill_missing a non-empty returned frame has one row per calendar
\* day of its span, none with a NaN nav, and a day that is no trading day of
\* the series carries the nav of the latest earlier trading day
C7_ForwardFill ==
  (call.valid /\ call.fill_missing /\ call.out.df # EmptyFrame) =>
    LET df == call.out.df
        lo == MinOf(Dates(df))
        hi == MaxOf(Dates(df))
        src == call.out.unfilled
    IN /\ Len(df) = hi - lo + 1
       /\ \A i \in 1..Len(df) :
            /\ df[i].date = lo + i - 1
            /\ df[i].nav # NaN
            /\ df[i].date \notin Dates(src) =>
                 df[i].nav =
                   NavAt(src, MaxOf({d \in Dates(src) : d < df[i].date}))

C9_NoRepersist ==
  (StaleBefore /\ Requests(call.out.trace) # << >>
     /\ ~call.out.handled /\ call.out.new_data = EmptyFrame) =>
    /\ call.out.unfilled = CachedBefore
    /\ ~call.fill_missing => call.out.df = CachedBefore
    /\ ~call.out.saved
    /\ csv = call.csv /\ meta = call.meta

\* C9 is exercised: a stale entry whose top-up fetch came back empty
C9_Witness ==
  /\ StaleBefore
  /\ Requests(call.out.trace) # << >>
  /\ ~call.out.handled
  /\ call.out.new_data = EmptyFrame
  /\ call.out.df = CachedBefore

\* C10: no exception leaves get_fund_data: whatever fails, it returns an
\* empty frame or a frame with ascending unique dates and no NaN nav
C10_NeverRaises ==
  call.valid =>
    /\ ~call.out.exc
    /\ \/ call.out.df = EmptyFrame
       \/ Ascending(call.out.df) /\ NoNaN(call.out.df)

\* C10 is exercised: an exception was raised inside get_fund_data and an
\* empty frame came back
C10_Witness ==
  /\ call.valid
  /\ call.out.handled
  /\ call.out.df = EmptyFrame

\* what get_cached_fund_data does with the files the call found
ReadBefore == get_cached_fund_data(call.csv, call.meta, today)
BothExistBefore == call.csv.kind # "absent" /\ call.meta.kind # "absent"

C12_FullOverwrite ==
  (call.valid /\ call.out.saved /\ call.wfault = "none") =>
    /\ csv = to_csv(call.out.unfilled)
    /\ read_csv(csv) = call.out.unfilled
    /\ meta.kind = "json"
    /\ meta.last_update = today
    /\ meta.data_count = Len(call.out.unfilled)
    /\ meta.date_range.start = call.out.unfilled[1].date
    /\ meta.date_range.end = call.out.unfilled[Len(call.out.unfilled)].date

\* C12 is exercised: the series file held a row before the save that the
\* frame saved does not hold
C12_Witness ==
  /\ call.valid /\ call.out.saved /\ call.wfault = "none"
  /\ call.csv.kind = "csv"
  /\ \E i \in 1..Len(call.csv.lines) :
       \A j \in 1..Len(csv.lines) : csv.lines[j] # call.csv.lines[i]

C16_FirstPageRaises ==
  (call.valid /\ call.fault.page = 1) =>
    /\ call.out.handled
    /\ call.out.df = EmptyFrame

\* C16 amended: a failure of the first page ends the fetch after that one
\* request with the empty frame returned in the normal way, nothing raised;
\* get_fund_data saves nothing and returns the empty frame when it found no
\* readable entry, the cached frame when it found a stale one
C16_FirstPageEmpty ==
  (call.valid /\ call.fault.page = 1) =>
    /\ Len(Requests(call.out.trace)) = 1
    /\ ~call.out.handled
    /\ call.out.new_data = EmptyFrame
    /\ ~call.out.saved
    /\ MissBefore =>
         /\ call.out.df = EmptyFrame
         /\ csv = ReadBefore.csv /\ meta = ReadBefore.meta
    /\ StaleBefore =>
         /\ call.out.unfilled = CachedBefore
         /\ csv = call.csv /\ meta = call.meta

\* C16 is exercised: no cache entry, a source that holds rows, and the
\* request of the first page fails
C16_Witness ==
  /\ MissBefore
  /\ call.fault.page = 1
  /\ remote # << >>
  /\ call.out.df = EmptyFrame

\* ------------------------------------------------ the v3.3 fetcher alone
\* fetch_fund_data_from_api run against remote histories of 0..MaxRows rows
FetchFaults == {NoFault} \cup [page : 1..MaxFaultPage, kind : {"error", "unparsable"}]

\* the weekdays before FetchDay, newest first, and the source's history of
\* k rows on them (the rows of History, over a longer span)
WeekdaysBefore(D) == SelectSeq([i \in 1..(D - 1) |-> D - i], IsWeekday)
LongHistory(k) ==
  [i \in 1..k |-> Row(WeekdaysBefore(FetchDay)[i], 10 + (WeekdaysBefore(FetchDay)[i] % 2))]

FetchInit ==
  /\ today = FetchDay
  /\ remote \in {LongHistory(k) : k \in 0..MaxRows}
  /\ csv = Absent
  /\ meta = Absent
  /\ call = NoCall
  /\ prev = NoCall
  /\ events = 0

\* new_data = fetch_fund_data_from_api(fund_code, None, end_date) (line 162),
\* with the fault the environment injects into one of its requests
FetchFundDataFromApi ==
  /\ ~call.valid
  /\ \E fault \in FetchFaults :
       \E out \in {fetch_fund_data_from_api(remote, NoDate, NoDate, fault)} :
         /\ fault # NoFault =>
              \E i \in 1..Len(out.trace) :
                out.trace[i].ev = "get" /\ out.trace[i].url.page = fault.page
         /\ call' = [valid |-> TRUE, fault |-> fault, out |-> out]
  /\ prev' = NoCall
  /\ UNCHANGED <<today, remote, csv, meta, events>>

FetchNext ==
  \/ FetchFundDataFromApi
  \/ Return
  \/ RemotePost

FetchSpec == FetchInit /\ [][FetchNext]_vars

\* the rows of page p of the source, and of its pages 1..p
PageRows(p) == Endpoint(remote, ApiUrl(p)).rows
RowsUpTo(p) == SubSeq(remote, 1, IF p * per_page < Len(remote) THEN p * per_page ELSE Len(remote))
ValidRowSet(rows) == {rows[i] : i \in {k \in 1..Len(rows) : rows[k].nav # NaN}}
RowSet(df) == {df[i] : i \in 1..Len(df)}

\* C14: with no fault the pages 1, 2, ... are requested in turn, every page
\* before the last requested one has per_page rows, the last requested one
\* has fewer, and the frame returned holds the valid rows of all of them
C14_RowCountPagination ==
  (call.valid /\ call.fault = NoFault) =>
    LET reqs == Requests(call.out.trace)
        n    == Len(reqs)
    IN /\ n >= 1
       /\ \A p \in 1..n : reqs[p].url.page = p
       /\ \A p \in 1..(n - 1) : Len(PageRows(p)) = per_page
       /\ Len(PageRows(n)) < per_page
       /\ ~call.out.exc =>
            /\ RowSet(call.out.df) = ValidRowSet(RowsUpTo(n))
            /\ Len(call.out.df) = Cardinality(ValidRowSet(RowsUpTo(n)))

\* C14 is exercised: pages of 20, 20, 20 and 15 rows: four requests, 75 rows
C14_Witness ==
  /\ call.valid /\ call.fault = NoFault
  /\ Len(PageRows(1)) = 20 /\ Len(PageRows(2)) = 20
  /\ Len(PageRows(3)) = 20 /\ Len(PageRows(4)) = 15
  /\ Len(Requests(call.out.trace)) = 4
  /\ Len(call.out.df) = 75

\* C17: a failure of page n > 1 ends the fetch: n requests were sent, nothing
\* is raised for it, and the frame returned holds the valid rows of pages
\* 1..n-1, ascending and once each
C17_LaterPagePartial ==
  (call.valid /\ call.fault.page > 1) =>
    LET reqs == Requests(call.out.trace)
        got  == ValidRowSet(RowsUpTo(call.fault.page - 1))
    IN /\ Len(reqs) = call.fault.page
       /\ reqs[Len(reqs)].url.page = call.fault.page
       /\ got # {} =>
            /\ ~call.out.exc
            /\ RowSet(call.out.df) = got
            /\ Len(call.out.df) = Cardinality(got)
            /\ Ascending(call.out.df)

\* C17 is exercised: the third page fails and the 40 rows of the first two
\* pages, one of them no number, come back as 39
C17_Witness ==
  /\ call.valid /\ call.fault.page = 3
  /\ \E i \in 1..Len(remote) : remote[i].nav = NaN
  /\ Len(call.out.df) = 39

\* ------------------------------------------------ the v2.1 fetcher (legacy)
\* the URL of one page request of _fetch_fund_data: sdate, edate, per, page
LegacyUrl(sdate, edate, page) ==
  [per |-> per_page_v21, page |-> page, sdate |-> DateStr(sdate), edate |-> DateStr(edate)]

\* what _fetch_fund_data sees of one response: table (a table with a tr was
\* found), trs (its tr's besides the header), rows (those of them with at
\* least 3 td's, as [date, nav]; a nav text that is no number is NaN), pager
\* ("none": no div.pagebtns; "next": one whose text holds 下一页; "last": one
\* whose text does not)
Page(table, trs, rows, pager) ==
  [table |-> table, trs |-> trs, rows |-> rows, pager |-> pager]

NoTable == Page(FALSE, 0, << >>, "none")

\* the source as a history: the rows of the window, per rows to a page; a
\* page past the last row is a table of one tr "暂无数据" (a single td); with
\* server.pager the pages carry div.pagebtns, with 下一页 while rows remain
HistoryServer(server, url) ==
  LET e    == Endpoint(server.rows, url)
      more == Endpoint(server.rows, [url EXCEPT !.page = url.page + 1]).kind = "table"
      pg   == IF ~server.pager THEN "none" ELSE IF more THEN "next" ELSE "last"
  IN IF e.kind = "nodata" THEN Page(TRUE, 1, << >>, pg)
     ELSE Page(TRUE, Len(e.rows), e.rows, pg)

\* the source as a script: its answer to page 1, 2, ... whatever the window;
\* no table past the end of the script
ScriptServer(server, url) ==
  IF url.page <= Len(server.pages) THEN server.pages[url.page] ELSE NoTable

\* requests.get(url) of _fetch_fund_data (line 125), which has no handler: a
\* failing request raises out of it
LegacyGet(server, url, fault) ==
  IF fault.page = url.page /\ fault.kind = "error" THEN [exc |-> TRUE, page |-> NoTable]
  ELSE [exc |-> FALSE,
        page |-> IF server.kind = "script" THEN ScriptServer(server, url)
                 ELSE HistoryServer(server, url)]

\* HasNextPage with a seeded fault: the row count is consulted although the
\* page carries a pager (`if` in place of `elif`)
HasNextPageAlsoByCount(resp) ==
  resp.pager = "next" \/ resp.trs >= per_page_v21

\* lines 183-195: has_next_page
HasNextPage(resp) ==
  IF resp.pager # "none" THEN resp.pager = "next"
  ELSE resp.trs >= per_page_v21

\* the while-loop of _fetch_fund_data (lines 117-209)
RECURSIVE LegacyLoop(_, _, _, _, _, _, _)
LegacyLoop(server, sdate, edate, fault, segment_data, page, trace) ==
  LET url == LegacyUrl(sdate, edate, page)
      got == LegacyGet(server, url, fault)
      tr  == Append(trace, GetEv(url))
  IN IF got.exc THEN [exc |-> TRUE, data |-> << >>, trace |-> tr]
     ELSE IF ~got.page.table THEN [exc |-> FALSE, data |-> segment_data, trace |-> tr]
     ELSE LET seg2 == segment_data \o got.page.rows
          IN IF ~HasNextPage(got.page)
             THEN [exc |-> FALSE, data |-> seg2, trace |-> tr]
             ELSE LegacyLoop(server, sdate, edate, fault, seg2, page + 1,
                             Append(tr, SleepEv))

\* _fetch_fund_data(fund_code, start_date, end_date): the list of row dicts
_fetch_fund_data(server, start_date, end_date, fault) ==
  LegacyLoop(server, start_date, end_date, fault, << >>, 1, << >>)

Min2(a, b) == IF a < b THEN a ELSE b

\* NextStart with a seeded fault: the next sub-window starts on the day the
\* previous one ends
NextStartSameDay(current_end_dt) == current_end_dt

\* line 55: current_start_dt = current_end_dt + timedelta(days=1)
NextStart(current_end_dt) == current_end_dt + 1

\* lines 37-58: the sub-windows of a window of more than 90 days, fetched one
\* after the other (time.sleep(1) after each)
RECURSIVE Segments(_, _, _, _, _, _, _)
Segments(server, current_start_dt, end_dt, fault, all_data, windows, trace) ==
  IF current_start_dt < end_dt
  THEN LET current_end_dt == Min2(current_start_dt + SegmentDays, end_dt)
           seg == _fetch_fund_data(server, current_start_dt, current_end_dt, fault)
           ws  == Append(windows, [s |-> current_start_dt, e |-> current_end_dt])
       IN IF seg.exc
          THEN [exc |-> TRUE, data |-> << >>, windows |-> ws, trace |-> trace \o seg.trace]
          ELSE Segments(server, NextStart(current_end_dt), end_dt, fault,
                        all_data \o seg.data, ws,
                        Append(trace \o seg.trace, [ev |-> "sleep1", url |-> ApiUrl(0)]))
  ELSE [exc |-> FALSE, data |-> all_data, windows |-> windows, trace |-> trace]

\* lines 84-94: the days start_dt..end_dt, left-merged with df, nav filled
\* forward
LegacyFill(df, start_dt, end_dt) == ffill(Reindex(df, start_dt, end_dt))

\* v2.1 get_fund_data(fund_code, start_date, end_date, fill_missing): exc (an
\* exception leaves it), df, unfilled (df before lines 82-96), the
\* sub-windows handed to _fetch_fund_data and the requests and sleeps
legacy_get_fund_data(server, start_dt, end_dt, fill_missing, fault) ==
  LET total_days == end_dt - start_dt
      one == _fetch_fund_data(server, start_dt, end_dt, fault)
      f == IF total_days > SegmentDays
           THEN Segments(server, start_dt, end_dt, fault, << >>, << >>, << >>)
           ELSE [exc |-> one.exc, data |-> one.data,
                 windows |-> <<[s |-> start_dt, e |-> end_dt]>>, trace |-> one.trace]
      df == DropDuplicates(SortValues(f.data))
  IN IF f.exc
     THEN [exc |-> TRUE, df |-> EmptyFrame, unfilled |-> EmptyFrame,
           windows |-> f.windows, trace |-> f.trace, fetched |-> << >>]
     ELSE [exc |-> FALSE,
           df |-> IF fill_missing /\ df # EmptyFrame
                  THEN LegacyFill(df, start_dt, end_dt) ELSE df,
           unfilled |-> df, windows |-> f.windows, trace |-> f.trace,
           fetched |-> f.data]

\* -------------------------------------------- _fetch_fund_data on a script
\* the answers a scripted source gives to one page request
ScriptRows(n) == [i \in 1..n |-> Row(LegacyDay - i, 10)]

ScriptPages ==
  {NoTable} \cup
  {Page(TRUE, n, ScriptRows(n), pg) :
     n \in {0, ShortPage, per_page_v21}, pg \in {"none", "next", "last"}}

Scripts == UNION {[1..k -> ScriptPages] : k \in 1..MaxScript}

PagerFaults == {NoFault} \cup [page : 1..MaxScript, kind : {"error"}]

PagerInit ==
  /\ today = LegacyDay
  /\ remote \in {[kind |-> "script", pages |-> s] : s \in Scripts}
  /\ csv = Absent
  /\ meta = Absent
  /\ call = NoCall
  /\ prev = NoCall
  /\ events = 0

\* all_data = _fetch_fund_data(fund_code, start_date, end_date) (v2.1 line 61)
FetchFundDataLegacy ==
  /\ ~call.valid
  /\ \E fault \in PagerFaults :
       \E out \in {_fetch_fund_data(remote, 1, 1 + SegmentDays, fault)} :
         /\ fault # NoFault =>
              \E i \in 1..Len(out.trace) :
                out.trace[i].ev = "get" /\ out.trace[i].url.page = fault.page
         /\ call' = [valid |-> TRUE, fault |-> fault, out |-> out]
  /\ prev' = NoCall
  /\ UNCHANGED <<today, remote, csv, meta, events>>

PagerNext ==
  \/ FetchFundDataLegacy
  \/ Return

PagerSpec == PagerInit /\ [][PagerNext]_vars

\* C15: the pages 1, 2, ... are requested in turn; after a page whose table
\* was found and that carries a pager the next page is requested exactly when
\* the pager holds the next-page text, whatever the number of its rows; after
\* one without a pager, exactly when it has at least per_page rows
C15_IndicatorPagination ==
  call.valid =>
    LET reqs == Requests(call.out.trace)
    IN \A k \in 1..Len(reqs) :
         /\ reqs[k].url.page = k
         /\ LET got == LegacyGet(remote, reqs[k].url, call.fault)
            IN (~got.exc /\ got.page.table) =>
                 (k < Len(reqs) <=>
                    IF got.page.pager # "none" THEN got.page.pager = "next"
                    ELSE got.page.trs >= per_page_v21)

\* C15 is exercised: a page that is not full but whose pager says next is
\* followed by a request, and a full page whose pager does not say next ends
\* the fetch
C15_Witness ==
  /\ call.valid /\ call.fault = NoFault
  /\ Len(remote.pages) = 3
  /\ Len(Requests(call.out.trace)) = 2
  /\ remote.pages[1].table /\ remote.pages[1].pager = "next"
  /\ remote.pages[1].trs < per_page_v21
  /\ remote.pages[2].table /\ remote.pages[2].pager = "last"
  /\ remote.pages[2].trs = per_page_v21

\* ------------------------------------- v2.1 get_fund_data on a history
LegacyHistory ==
  [i \in 1..Len(WeekdaysBefore(LegacyDay)) |->
     Row(WeekdaysBefore(LegacyDay)[i], 10 + (WeekdaysBefore(LegacyDay)[i] % 2))]

\* the same history with some nav cells that are no number
LegacyHistoryHoled ==
  [i \in 1..Len(LegacyHistory) |->
     IF LegacyHistory[i].date % 50 = 10 THEN Row(LegacyHistory[i].date, NaN)
     ELSE LegacyHistory[i]]

LegacyStarts == {1, 2}

LegacySpans == ((SegmentDays - 1)..(SegmentDays + 3)) \cup ((MaxSpan - 4)..MaxSpan)

LegacyFaults == {NoFault, [page |-> 2, kind |-> "error"]}

LegacyInit ==
  /\ today = LegacyDay
  /\ remote \in {[kind |-> "rows", rows |-> r, pager |-> pg] :
                   r \in {LegacyHistory, LegacyHistoryHoled}, pg \in BOOLEAN}
  /\ csv = Absent
  /\ meta = Absent
  /\ call = NoCall
  /\ prev = NoCall
  /\ events = 0

\* a call get_fund_data(fund_code, start_date, end_date, fill_missing) of v2.1
LegacyGetFundData ==
  /\ ~call.valid
  /\ \E start \in LegacyStarts, span \in LegacySpans,
        fill_missing \in BOOLEAN, fault \in LegacyFaults :
       \E out \in {legacy_get_fund_data(remote, start, start + span,
                                        fill_missing, fault)} :
         /\ fault # NoFault =>
              \E i \in 1..Len(out.trace) :
                out.trace[i].ev = "get" /\ out.trace[i].url.page = fault.page
         /\ call' = [valid |-> TRUE, start |-> start, end |-> start + span,
                     fill_missing |-> fill_missing, fault |-> fault, out |-> out]
  /\ prev' = NoCall
  /\ UNCHANGED <<today, remote, csv, meta, events>>

LegacyNext ==
  \/ LegacyGetFundData
  \/ Return

LegacySpec == LegacyInit /\ [][LegacyNext]_vars

\* C18: for a window of more than 90 days every day from start_date to
\* end_date, end_date included, lies in a sub-window handed to
\* _fetch_fund_data, and the rows collected are those of the sub-windows one
\* after the other
C18_SubWindowCoverage ==
  (call.valid /\ ~call.out.exc /\ call.end - call.start > SegmentDays) =>
    LET ws == call.out.windows
    IN /\ \A d \in call.start..call.end :
            \E i \in 1..Len(ws) : ws[i].s <= d /\ d <= ws[i].e
       /\ \A i \in 1..Len(call.out.fetched) :
            \E j \in 1..Len(ws) :
              /\ ws[j].s <= call.out.fetched[i].date
              /\ call.out.fetched[i].date <= ws[j].e

\* C19: a frame that is not empty, returned by the v2.1 get_fund_data with
\* fill_missing = False, has ascending dates, one row per date, and no row
\* whose nav is no number
C19_FetcherShape ==
  (call.valid /\ ~call.out.exc /\ ~call.fill_missing /\ call.out.df # EmptyFrame) =>
    /\ Ascending(call.out.df)
    /\ NoNaN(call.out.df)

\* ------------------------------------------------------------ get_fund_info
\* '未获取到', the value of a field that was not obtained
Placeholder == "not obtained"

\* a key a dictionary of the answer lacks (reading it raises KeyError)
NoKey == "KeyError"

\* a fund code is a sequence of digits; << >> stands for an item without the
\* key CODE
NoCode == << >>

\* one item of data['Datas']: CODE, NAME and FundBaseInfo (NoKey: the key is
\* missing; "no JJGS": the nested dictionary lacks JJGS; else the company),
\* and the kind of fund the endpoint lists under that code ("money": a
\* money-market fund), which no line of get_fund_info reads
Item(code, name, info, ftype) ==
  [code |-> code, name |-> name, info |-> info, ftype |-> ftype]

\* the initial fund_info dictionary (lines 25-29) and that of the outer
\* handler (lines 47-51)
InitialInfo(fund_code) ==
  [fund_name |-> Placeholder, fund_company |-> Placeholder, fund_code |-> fund_code]

\* an item code that starts with the code asked for (the search lists such
\* items besides the exact one)
CodeStartsWith(item_code, fund_code) ==
  /\ Len(item_code) >= Len(fund_code)
  /\ SubSeq(item_code, 1, Len(fund_code)) = fund_code

\* line 36: item['CODE'] == fund_code
CodeMatches(item_code, fund_code) == item_code = fund_code

\* lines 35-39, the loop over data['Datas']: exc = TRUE is a KeyError, raised
\* with what fund_info holds by then
RECURSIVE ScanDatas(_, _, _)
ScanDatas(items, fund_code, fund_info) ==
  IF items = << >> THEN [exc |-> FALSE, info |-> fund_info]
  ELSE LET item == Head(items)
       IN IF item.code = NoCode THEN [exc |-> TRUE, info |-> fund_info]
          ELSE IF CodeMatches(item.code, fund_code)
          THEN IF item.name = NoKey THEN [exc |-> TRUE, info |-> fund_info]
               ELSE IF item.info \in {NoKey, "no JJGS"}
               THEN [exc |-> TRUE,
                     info |-> [fund_info EXCEPT !.fund_name = item.name]]
               ELSE [exc |-> FALSE,
                     info |-> [fund_info EXCEPT !.fund_name = item.name,
                                                !.fund_company = item.info]]
          ELSE ScanDatas(Tail(items), fund_code, fund_info)

\* lines 33-39, the body of the inner try: response.json() raises on a body
\* that is no JSON, `'Datas' in data` or len(data['Datas']) on a JSON null
ParseInfo(resp, fund_code) ==
  IF resp.kind \in {"not json", "null"}
  THEN [exc |-> TRUE, info |-> InitialInfo(fund_code)]
  ELSE IF resp.kind = "no Datas" \/ resp.datas = << >>
  THEN [exc |-> FALSE, info |-> InitialInfo(fund_code)]
  ELSE ScanDatas(resp.datas, fund_code, InitialInfo(fund_code))

\* InnerExcept with a seeded fault: no handler around the parsing
InnerExceptNone(r) == r

\* lines 40-43: except Exception: print; then return fund_info
InnerExcept(r) == [r EXCEPT !.exc = FALSE]

\* get_fund_info(fund_code) against one answer of the search API: exc (an
\* exception leaves the function) and the record returned; a failing
\* requests.get is caught by the outer handler (lines 45-51)
get_fund_info(resp, fund_code) ==
  IF resp.kind = "error" THEN [exc |-> FALSE, info |-> InitialInfo(fund_code)]
  ELSE InnerExcept(ParseInfo(resp, fund_code))

FundCodes == {<<1>>, <<1, 1>>}

Items ==
  {Item(c, n, g, t) : c \in FundCodes \cup {NoCode}, n \in {NoKey, "A", "B"},
                      g \in {NoKey, "no JJGS", "G"}, t \in {"money", "stock"}}

\* the answers of the search API: the request fails, the body is no JSON,
\* the JSON is null or holds a null Datas, it has no key Datas, or Datas is a
\* list of 0..MaxDatas items
Responses ==
  {[kind |-> k, datas |-> << >>] : k \in {"error", "not json", "null", "no Datas"}}
    \cup {[kind |-> "json", datas |-> d] :
            d \in UNION {[1..k -> Items] : k \in 0..MaxDatas}}

InfoInit ==
  /\ today = StartDay
  /\ remote \in Responses
  /\ csv = Absent
  /\ meta = Absent
  /\ call = NoCall
  /\ prev = NoCall
  /\ events = 0

\* fund_info = get_fund_info(st.session_state.fund_code) (app/main.py line 106)
GetFundInfo ==
  /\ ~call.valid
  /\ \E fund_code \in FundCodes :
       call' = [valid |-> TRUE, fund_code |-> fund_code,
                out |-> get_fund_info(remote, fund_code)]
  /\ prev' = NoCall
  /\ UNCHANGED <<today, remote, csv, meta, events>>

InfoNext ==
  \/ GetFundInfo
  \/ Return

InfoSpec == InfoInit /\ [][InfoNext]_vars

\* the items of the answer whose code is the code asked for
ExactItems ==
  {remote.datas[i] : i \in {k \in 1..Len(remote.datas) :
                              remote.datas[k].code = call.fund_code}}

\* C20: whatever the search API answers, get_fund_info raises nothing and
\* returns a record whose fund_code is the input; fund_name is the NAME of an
\* item whose CODE is the input, fund_company the JJGS of such an item, or
\* else the placeholder
C20_InfoDegrades ==
  call.valid =>
    /\ ~call.out.exc
    /\ call.out.info.fund_code = call.fund_code
    /\ \/ call.out.info.fund_name = Placeholder
       \/ \E it \in ExactItems : it.name = call.out.info.fund_name
    /\ \/ call.out.info.fund_company = Placeholder
       \/ \E it \in ExactItems : it.info = call.out.info.fund_company
    /\ call.out.info.fund_name # NoKey
    /\ call.out.info.fund_company \notin {NoKey, "no JJGS"}
    /\ remote.kind # "json" => call.out.info = InitialInfo(call.fund_code)

\* C20 is exercised: the answer lists an item of a longer code that starts
\* with the input before the item of the input, and the latter lacks the
\* nested company: the name is taken from it, the company is the placeholder
C20_Witness ==
  /\ call.valid
  /\ remote.kind = "json" /\ Len(remote.datas) = 2
  /\ remote.datas[1].code # call.fund_code
  /\ CodeStartsWith(remote.datas[1].code, call.fund_code)
  /\ remote.datas[2].code = call.fund_code
  /\ remote.datas[2].info = NoKey
  /\ call.out.info.fund_name = remote.datas[2].name
  /\ call.out.info.fund_name # Placeholder
  /\ call.out.info.fund_company = Placeholder

\* ---------------------------------------------------- metadata consumer
\* dict.get(key, default)
DictGet(d, key, default) == IF key \in DOMAIN d THEN d[key] ELSE default

\* display_fund_analysis, lines 181-182 (and 226, 349): the metric branch
\* taken for the record get_fund_info returned
MetricBranch(fund_info) ==
  IF DictGet(fund_info, "is_money_fund", FALSE) THEN "money" ELSE "nav"

FundMetadataFields ==
  {"fund_code", "fund_name", "fund_company", "fund_type", "is_money_fund"}

\* C21: every record get_fund_info returns carries the five fields of
\* FundMetadata, and for a code the endpoint lists as a money-market fund
\* is_money_fund is true, so that the money-market metric branch is taken
C21_FixedShape ==
  call.valid =>
    /\ DOMAIN call.out.info = FundMetadataFields
    /\ (\E it \in ExactItems : it.ftype = "money")
         => MetricBranch(call.out.info) = "money"

\* ------------------------------------------------------------ arithmetic
\* the metrics are computed in floating point; the model keeps every
\* quotient exact as a fraction n/d in lowest terms (d > 0), a power or a
\* square root it cannot evaluate as the expression itself
Abs(x) == IF x < 0 THEN -x ELSE x

RECURSIVE GCD(_, _)
GCD(a, b) == IF b = 0 THEN a ELSE GCD(b, a % b)

Rat(n, d) ==
  LET g == GCD(Abs(n), Abs(d))
      sgn == IF d < 0 THEN -1 ELSE 1
  IN [n |-> sgn * (n \div g), d |-> sgn * (d \div g)]

RInt(k) == [n |-> k, d |-> 1]
RAdd(a, b) ==
  LET l == (a.d \div GCD(a.d, b.d)) * b.d
  IN Rat(a.n * (l \div a.d) + b.n * (l \div b.d), l)
RNeg(a) == [n |-> -a.n, d |-> a.d]
RSub(a, b) == RAdd(a, RNeg(b))
RMul(a, b) == Rat(a.n * b.n, a.d * b.d)
RDiv(a, b) == Rat(a.n * b.d, a.d * b.n)
RLe(a, b) == a.n * b.d <= b.n * a.d
RLt(a, b) == a.n * b.d < b.n * a.d

\* Series.sum() of fractions (the halves are summed apart, which keeps the
\* evaluation shallow on a long series)
RECURSIVE RSum(_)
RSum(s) ==
  IF Len(s) = 0 THEN RInt(0)
  ELSE IF Len(s) = 1 THEN s[1]
  ELSE LET h == Len(s) \div 2
       IN RAdd(RSum(SubSeq(s, 1, h)), RSum(SubSeq(s, h + 1, Len(s))))

RMin(S) == CHOOSE x \in S : \A y \in S : RLe(x, y)

\* a float: a number, or nan
Num(r) == [kind |-> "num", v |-> r]
NaNf == [kind |-> "nan"]

\* (pow(base, exp) - 1) * 100 for a base > 0: a number where the power is
\* rational (exponent 1, base 1), the expression otherwise
AnnualPct(base, exp) ==
  IF base = RInt(1) THEN Num(RInt(0))
  ELSE IF exp = RInt(1) THEN Num(RMul(RSub(base, RInt(1)), RInt(100)))
  ELSE [kind |-> "pow", base |-> base, exp |-> exp]

\* np.sqrt(x) * 100 for x >= 0
SqrtPct(x) ==
  IF x = RInt(0) THEN Num(RInt(0)) ELSE [kind |-> "sqrt", of |-> x]

\* ------------------------------------------- fund_analysis.py (v2.1)
\* df['nav'] as a Series
NavOf(df) == [i \in 1..Len(df) |-> df[i].nav]

\* Series.pct_change().dropna(): the change of each value over the one above
PctChange(nav_series) ==
  [i \in 1..(Len(nav_series) - 1) |->
     RSub(Rat(nav_series[i + 1], nav_series[i]), RInt(1))]

\* np.maximum.accumulate(nav_series) (expanding().max() in the dashboard)
RunningMax(nav_series) ==
  [i \in 1..Len(nav_series) |-> MaxOf({nav_series[j] : j \in 1..i})]

\* line 17: (nav_series - running_max) / running_max
Drawdown(nav_series) ==
  [i \in 1..Len(nav_series) |->
     Rat(nav_series[i] - RunningMax(nav_series)[i], RunningMax(nav_series)[i])]

RMax(S) == CHOOSE x \in S : \A y \in S : RLe(y, x)

\* calculate_max_drawdown with a seeded fault: drawdown.max() in place of
\* drawdown.min()
calculate_max_drawdown_max(nav_series) ==
  IF nav_series = << >> THEN NaNf
  ELSE LET drawdown == Drawdown(nav_series)
       IN Num(RMul(RMax({drawdown[i] : i \in 1..Len(drawdown)}), RInt(100)))

\* calculate_max_drawdown(nav_series): drawdown.min() * 100 (the min of an
\* empty Series is nan)
calculate_max_drawdown(nav_series) ==
  IF nav_series = << >> THEN NaNf
  ELSE LET drawdown == Drawdown(nav_series)
       IN Num(RMul(RMin({drawdown[i] : i \in 1..Len(drawdown)}), RInt(100)))

\* Series.std(): the sample deviation (ddof=1) squared, nan below 2 values
SampleVar(returns) ==
  LET m == Len(returns)
      mean == RDiv(RSum(returns), RInt(m))
      sq == [i \in 1..m |-> RMul(RSub(returns[i], mean), RSub(returns[i], mean))]
  IN RDiv(RSum(sq), RInt(m - 1))

\* calculate_volatility(nav_series, periods_per_year):
\* returns.std() * np.sqrt(periods_per_year) * 100
calculate_volatility(nav_series, periods_per_year) ==
  LET returns == PctChange(nav_series)
  IN IF Len(returns) < 2 THEN NaNf
     ELSE SqrtPct(RMul(SampleVar(returns), RInt(periods_per_year)))

\* calculate_annual_return(nav_series, periods_per_year): exc = TRUE is the
\* IndexError of iloc[-1] on an empty Series
calculate_annual_return(nav_series, periods_per_year) ==
  IF nav_series = << >> THEN [exc |-> TRUE, value |-> NaNf]
  ELSE LET total_return == RSub(Rat(nav_series[Len(nav_series)], nav_series[1]), RInt(1))
           days == Len(nav_series)
       IN [exc |-> FALSE,
           value |-> AnnualPct(RAdd(RInt(1), total_return), Rat(periods_per_year, days))]

\* ------------------------------------ display_fund_analysis (app/main.py)
\* a nav n of a row stands for n tenths (1.2 is 12)
NavValue(n) == Rat(n, 10)

\* lines 226-239, the statistics of a money-market fund: the current
\* seven-day sum and the rolling(window=7) sums (nan on the first 6 rows)
SevenDayStats(df) ==
  LET latest_date == MaxOf(Dates(df))
      last_7_days == NavOf(SelectSeq(df, LAMBDA r : r.date > latest_date - 7))
      rolling_7day_sum ==
        [i \in 1..Len(df) |->
           IF i < 7 THEN NaNf
           ELSE Num(RSum([k \in 1..7 |-> NavValue(df[i - 7 + k].nav)]))]
  IN [last_7_days |-> last_7_days,
      seven_day_sum |-> RSum([k \in 1..Len(last_7_days) |-> NavValue(last_7_days[k])]),
      rolling_7day_sum |-> rolling_7day_sum]

\* lines 373-376: the volatility of the window, nan where the division is
\* 0.0 / 0 (one row: every daily_return is nan and the sum skips them)
WindowVolatility(period_nav) ==
  LET trading_days == Len(period_nav)
      daily_return == PctChange(period_nav)
  IN IF trading_days - 1 = 0 THEN NaNf
     ELSE LET mean_return == RDiv(RSum(daily_return), RInt(Len(daily_return)))
              sq == [i \in 1..Len(daily_return) |->
                       RMul(RSub(daily_return[i], mean_return),
                            RSub(daily_return[i], mean_return))]
          IN SqrtPct(RDiv(RSum(sq), RInt(trading_days - 1)))

\* CalendarDays with a seeded fault: the end day is not counted
CalendarDaysExclusive(start_date, end_date) == end_date - start_date

\* line 347: (end_date - start_date).days + 1
CalendarDays(start_date, end_date) == (end_date - start_date) + 1

\* lines 340-406: the metrics of the window [start_date, end_date]; shown =
\* "error" is st.error (line 406), shown = "metrics" the st.metric calls
WindowMetrics(df, start_date, end_date, is_money_fund) ==
  LET period_df == SelectSeq(df, LAMBDA r : r.date >= start_date /\ r.date <= end_date)
      period_nav == NavOf(period_df)
      trading_days == Len(period_df)
      calendar_days == CalendarDays(start_date, end_date)
  IN IF ~(period_df # << >> /\ start_date <= end_date)
     THEN [shown |-> "error", period_df |-> period_df]
     ELSE IF is_money_fund
     THEN LET total_income == RSum([k \in 1..trading_days |-> NavValue(period_nav[k])])
              cumulative_return == RMul(RDiv(total_income, RInt(10000)), RInt(100))
              exponent == Rat(365, calendar_days)
          IN [shown |-> "metrics", period_df |-> period_df, branch |-> "money",
              trading_days |-> trading_days, calendar_days |-> calendar_days,
              cumulative_return |-> Num(cumulative_return),
              annual_return |->
                AnnualPct(RAdd(RInt(1), RDiv(cumulative_return, RInt(100))), exponent)]
     ELSE LET period_return ==
                RMul(RSub(Rat(period_nav[trading_days], period_nav[1]), RInt(1)), RInt(100))
              exponent == Rat(252, trading_days)
              drawdown == calculate_max_drawdown(period_nav)
          IN [shown |-> "metrics", period_df |-> period_df, branch |-> "nav",
              trading_days |-> trading_days, calendar_days |-> calendar_days,
              cumulative_return |-> Num(period_return),
              annual_return |->
                AnnualPct(RAdd(RInt(1), RDiv(period_return, RInt(100))), exponent),
              volatility |-> WindowVolatility(period_nav),
              max_drawdown |-> Num([n |-> Abs(drawdown.v.n), d |-> drawdown.v.d])]

\* display_fund_analysis(df, fund_info) with the two dates of the pickers
display_fund_analysis(df, fund_info, start_date, end_date) ==
  LET is_money_fund == MetricBranch(fund_info) = "money"
  IN [stats |-> IF is_money_fund THEN SevenDayStats(df) ELSE [last_7_days |-> << >>],
      window |-> WindowMetrics(df, start_date, end_date, is_money_fund)]

\* ---------------------------------------------------------- MetricsSpec
\* the metrics on their own: `remote` is the frame handed to the
\* presentation layer (oldest row first), `call` the computation just made
periods_per_year == 252

\* the first k trading days from day 4 on (days 6 and 7 are a weekend)
TradingDates(k) == SubSeq(SelectSeq([i \in 1..(2 * k + 2) |-> 3 + i], IsWeekday), 1, k)

NavValues == {9, 10, 11, 12}

\* every series of 1..MaxSeries trading days with navs of NavValues
ShortSeries ==
  UNION {{[i \in 1..k |-> Row(TradingDates(k)[i], f[i])] : f \in [1..k -> NavValues]} :
           k \in 1..MaxSeries}

\* series of 7..MaxYield rows, as fetched (trading days only) and with
\* every calendar day filled in
YieldSeries ==
  LET fetched == {[i \in 1..k |-> Row(TradingDates(k)[i], 9 + (TradingDates(k)[i] % 4))] :
                    k \in 7..MaxYield}
  IN fetched \cup {FillMissing(df) : df \in fetched}

\* 1.0 on day 0 and 1.1 on day 252 (days 1 and 253 here), as the two
\* endpoint records and as one record per day
EndpointSeries == <<Row(1, 10), Row(1 + periods_per_year, 11)>>
DailySeries ==
  [i \in 1..(1 + periods_per_year) |-> Row(i, IF i = 1 + periods_per_year THEN 11 ELSE 10)]

MetricsInit ==
  /\ today = StartDay
  /\ remote \in ShortSeries \cup YieldSeries \cup {EndpointSeries, DailySeries}
  /\ csv = Absent
  /\ meta = Absent
  /\ call = NoCall
  /\ prev = NoCall
  /\ events = 0

CalculateMaxDrawdown ==
  /\ ~call.valid
  /\ call' = [valid |-> TRUE, op |-> "calculate_max_drawdown",
              out |-> calculate_max_drawdown(NavOf(remote))]
  /\ prev' = NoCall
  /\ UNCHANGED <<today, remote, csv, meta, events>>

CalculateVolatility ==
  /\ ~call.valid
  /\ call' = [valid |-> TRUE, op |-> "calculate_volatility",
              out |-> calculate_volatility(NavOf(remote), periods_per_year)]
  /\ prev' = NoCall
  /\ UNCHANGED <<today, remote, csv, meta, events>>

CalculateAnnualReturn ==
  /\ ~call.valid
  /\ call' = [valid |-> TRUE, op |-> "calculate_annual_return",
              out |-> calculate_annual_return(NavOf(remote), periods_per_year)]
  /\ prev' = NoCall
  /\ UNCHANGED <<today, remote, csv, meta, events>>

\* the records get_fund_info can return, and one that says money-market fund
FundInfos ==
  {InitialInfo(<<1>>),
   [fund_name |-> "A", fund_company |-> "G", fund_code |-> <<1>>,
    fund_type |-> "money", is_money_fund |-> TRUE]}

\* the dates the two pickers offer (lines 320-334: between the first and
\* the last date of the frame)
PickDates(df) ==
  {d \in MinOf(Dates(df))..MaxOf(Dates(df)) : d <= MinOf(Dates(df)) + MaxPick}

DisplayFundAnalysis ==
  /\ ~call.valid
  /\ \E fund_info \in FundInfos :
       \E start_date \in PickDates(remote), end_date \in PickDates(remote) :
         call' = [valid |-> TRUE, op |-> "display_fund_analysis",
                  fund_info |-> fund_info,
                  start_date |-> start_date, end_date |-> end_date,
                  out |-> display_fund_analysis(remote, fund_info, start_date, end_date)]
  /\ prev' = NoCall
  /\ UNCHANGED <<today, remote, csv, meta, events>>

MetricsNext ==
  \/ CalculateMaxDrawdown
  \/ CalculateVolatility
  \/ CalculateAnnualReturn
  \/ DisplayFundAnalysis
  \/ Return

MetricsSpec == MetricsInit /\ [][MetricsNext]_vars

\* a metric shown as a condition of its own rather than as a number or nan
IsInsufficientSignal(v) == v.kind = "insufficient"

\* C22: when the selected window holds fewer than 2 records, the window
\* metrics report a distinguishable insufficient-data condition (the error
\* of the window, or such a condition in place of the volatility and of the
\* annualized return), and calculate_volatility does so below 2 records
C22_InsufficientSignal ==
  /\ (call.valid /\ call.op = "display_fund_analysis"
        /\ Len(call.out.window.period_df) < 2)
       => \/ call.out.window.shown = "error"
          \/ /\ IsInsufficientSignal(call.out.window.annual_return)
             /\ call.out.window.branch = "nav"
                  => IsInsufficientSignal(call.out.window.volatility)
  /\ (call.valid /\ call.op = "calculate_volatility" /\ Len(remote) < 2)
       => IsInsufficientSignal(call.out)

\* C23: on a non-empty series of positive navs every drawdown is <= 0 and
\* is 0 exactly where the nav is the maximum so far; calculate_max_drawdown
\* returns 100 times the least drawdown, which is the deepest fall from an
\* earlier nav to a later one; [1.0, 1.2, 0.9, 1.1] has the running maximum
\* [1.0, 1.2, 1.2, 1.2] and the result -25.0
C23_MaxDrawdown ==
  (call.valid /\ call.op = "calculate_max_drawdown") =>
    LET nav == NavOf(remote)
        n == Len(nav)
        falls == {RMul(Rat(nav[i] - nav[j], nav[j]), RInt(100)) :
                    <<j, i>> \in {p \in (1..n) \X (1..n) : p[1] <= p[2]}}
    IN /\ \A i \in 1..n :
            /\ RLe(Drawdown(nav)[i], RInt(0))
            /\ (\A j \in 1..i : nav[j] <= nav[i]) <=> Drawdown(nav)[i] = RInt(0)
            /\ RunningMax(nav)[i] \in {nav[j] : j \in 1..i}
            /\ \A j \in 1..i : nav[j] <= RunningMax(nav)[i]
       /\ call.out.kind = "num"
       /\ call.out.v \in falls
       /\ \A f \in falls : RLe(call.out.v, f)
       /\ nav = <<10, 12, 9, 11>> =>
            /\ RunningMax(nav) = <<10, 12, 12, 12>>
            /\ Drawdown(nav) = <<RInt(0), RInt(0), Rat(-1, 4), Rat(-1, 12)>>
            /\ call.out = Num(RInt(-25))

\* C23 is exercised: calculate_max_drawdown has run on [1.0, 1.2, 0.9, 1.1]
\* and returned -25
C23_Witness ==
  /\ call.valid /\ call.op = "calculate_max_drawdown"
  /\ NavOf(remote) = <<10, 12, 9, 11>>
  /\ call.out = Num(RInt(-25))

\* an annualized return of about 10 %: (11/10)^e - 1 with e within a
\* hundredth of 1 (9.9 % to 10.1 %)
IsAboutTenPercent(v) ==
  \/ v = Num(RInt(10))
  \/ /\ v.kind = "pow"
     /\ v.base = Rat(11, 10)
     /\ 100 * Abs(v.exp.n - v.exp.d) <= v.exp.d

\* C24: calculate_annual_return with periods_per_year = 252 on a series
\* that is 1.0000 on day 0 and 1.1000 on day 252 yields about 10.00 %,
\* given as the two endpoint records or as one record per day
C24_AnnualReturn ==
  (call.valid /\ call.op = "calculate_annual_return"
     /\ remote \in {EndpointSeries, DailySeries})
    => /\ ~call.out.exc
       /\ IsAboutTenPercent(call.out.value)

\* the last k values of a Series
LastValues(nav_series, k) == SubSeq(nav_series, Len(nav_series) - k + 1, Len(nav_series))

\* C25: on a series of at least 7 records the current 7-day figure of a
\* money-market fund sums exactly the last 7 records and so equals the last
\* value of the rolling(window=7) sums
C25_SevenDaySum ==
  (call.valid /\ call.op = "display_fund_analysis"
     /\ MetricBranch(call.fund_info) = "money" /\ Len(remote) >= 7)
    => /\ call.out.stats.last_7_days = LastValues(NavOf(remote), 7)
       /\ Num(call.out.stats.seven_day_sum) = call.out.stats.rolling_7day_sum[Len(remote)]

\* the records of the frame inside the window of the call
PickedRecords ==
  {i \in 1..Len(remote) : /\ call.start_date <= remote[i].date
                          /\ remote[i].date <= call.end_date}

per_page_segment == 100

\* line 265: the URL of one page request, with the window
SegmentUrl(sdate, edate, page) ==
  [per |-> per_page_segment, page |-> page, sdate |-> DateStr(sdate), edate |-> DateStr(edate)]

\* the while-loop of fetch_fund_data_segment (lines 262-314): every failure
\* and every short or empty page ends it
RECURSIVE SegmentLoop(_, _, _, _, _, _, _)
SegmentLoop(rows, sdate, edate, fault, segment_data, page, trace) ==
  LET url  == SegmentUrl(sdate, edate, page)
      resp == RequestsGet(rows, url, fault)
      tr   == Append(trace, GetEv(url))
  IN IF resp.kind \in {"error", "unparsable", "nodata"} \/ resp.rows = << >>
     THEN [df |-> segment_data, trace |-> tr]
     ELSE LET seg2 == Concat(segment_data, resp.rows)
          IN IF Len(resp.rows) < per_page_segment
             THEN [df |-> seg2, trace |-> tr]
             ELSE SegmentLoop(rows, sdate, edate, fault, seg2, page + 1,
                              Append(tr, SleepEv))

\* fetch_fund_data_segment(fund_code, start_date, end_date)
fetch_fund_data_segment(rows, start_date, end_date, fault) ==
  SegmentLoop(rows, start_date, end_date, fault, EmptyFrame, 1, << >>)

\* ------------------------------------------------------------- RateSpec
\* every fetcher on its own sources: the v3.3 fetchers on FetchDay, the
\* v2.1 fetchers on LegacyDay
\* a history with a row on each of the k days before FetchDay, newest first
DailyHistory(k) == [i \in 1..k |-> Row(FetchDay - i, 10 + (i % 2))]

SegmentInit ==
  /\ today = FetchDay
  /\ remote \in {DailyHistory(k) : k \in (per_page_segment - 1)..MaxSegRows}
  /\ csv = Absent
  /\ meta = Absent
  /\ call = NoCall
  /\ prev = NoCall
  /\ events = 0

SegmentStarts == {1, FetchDay - 10}

FetchFundDataSegment ==
  /\ ~call.valid
  /\ \E fault \in FetchFaults, start \in SegmentStarts :
       \E out \in {fetch_fund_data_segment(remote, start, FetchDay, fault)} :
         /\ fault # NoFault =>
              \E i \in 1..Len(out.trace) :
                out.trace[i].ev = "get" /\ out.trace[i].url.page = fault.page
         /\ call' = [valid |-> TRUE, fault |-> fault, start |-> start, out |-> out]
  /\ prev' = NoCall
  /\ UNCHANGED <<today, remote, csv, meta, events>>

RateInit == FetchInit \/ SegmentInit \/ PagerInit \/ LegacyInit

RateNext ==
  \/ today = FetchDay /\ FetchFundDataFromApi
  \/ today = FetchDay /\ FetchFundDataSegment
  \/ today = FetchDay /\ RemotePost
  \/ today = LegacyDay /\ remote.kind = "script" /\ FetchFundDataLegacy
  \/ today = LegacyDay /\ remote.kind = "rows" /\ LegacyGetFundData
  \/ Return

RateSpec == RateInit /\ [][RateNext]_vars

\* the events of a fetch hold no two page requests in a row
NoTwoRequestsInARow(trace) ==
  \A i \in 1..(Len(trace) - 1) : trace[i].ev = "get" => trace[i + 1].ev # "get"

\* C27: in every fetcher (fetch_fund_data_from_api, fetch_fund_data_segment,
\* _fetch_fund_data and the sub-window loop of the v2.1 get_fund_data) a
\* delay lies between any two consecutive page requests of one fetch
C27_RateLimit ==
  call.valid =>
    /\ NoTwoRequestsInARow(call.out.trace)
    /\ \A i \in 1..Len(call.out.trace) :
         call.out.trace[i].ev \in {"get", "sleep", "sleep1"}

\* C27 is exercised: a fetch over two sub-windows made at least four page
\* requests, with the sleeps of the pages and the sleep of the sub-windows
C27_Witness ==
  /\ call.valid
  /\ today = LegacyDay
  /\ Len(Requests(call.out.trace)) >= 4
  /\ \E i \in 1..Len(call.out.trace) : call.out.trace[i].ev = "sleep1"
  /\ \E i \in 1..Len(call.out.trace) : call.out.trace[i].ev = "sleep"

\* ------------------------------------------------- the cache across calls
\* the dates of the series a file holds
DatesOnDisk(file) == IF file.kind = "csv" THEN Dates(read_csv(file)) ELSE {}

\* this step is a call of get_fund_data
IsCallStep == call'.valid /\ call' # call

MaxCalls == 1           \* get_fund_data calls one process makes

Procs == {1, 2}

\* fund codes as the characters typed
RaceCodes == {<<"1">>, <<"1", "1">>}

\* cache_file with a seeded fault: the path does not depend on the fund code
cache_file_shared(fund_code) == <<".", "c", "s", "v">>

\* lines 55 and 98: os.path.join(CACHE_DIR, f"{fund_code}.csv")
cache_file(fund_code) == fund_code \o <<".", "c", "s", "v">>

\* meta_file with a seeded fault: the path does not depend on the fund code
meta_file_shared(fund_code) == <<"_", "m", "e", "t", "a", ".", "j", "s", "o", "n">>

\* lines 56 and 102: os.path.join(CACHE_DIR, f"{fund_code}_meta.json")
meta_file(fund_code) ==
  fund_code \o <<"_", "m", "e", "t", "a", ".", "j", "s", "o", "n">>

Paths == {cache_file(c) : c \in RaceCodes} \cup {meta_file(c) : c \in RaceCodes}

EmptyDir == [p \in Paths |-> Absent]

\* the directory after `file` is written to, or removed from, `path`
Write(dir, path, file) == [dir EXCEPT ![path] = file]

\* open(path, 'w') before anything is written: an empty file, which neither
\* read_csv nor json.load accepts
Truncated == Corrupt

\* the cache a call of an earlier day left for the fund code
StaleCache(dir, fund_code) ==
  LET df == SortValues(HistoryFrom(StartDay - 2, 1))
  IN Write(Write(dir, cache_file(fund_code), to_csv(df)),
           meta_file(fund_code), MetaOf(df, StartDay - 1))

IdleProc ==
  [pc |-> "idle", fund_code |-> << >>, calls |-> 0,
   cached_data |-> EmptyFrame, meta_data |-> Absent, df |-> EmptyFrame]

RaceInit ==
  /\ today = StartDay
  /\ remote = [c \in RaceCodes |-> History(2)]
  /\ \E stale \in SUBSET RaceCodes, damaged \in SUBSET RaceCodes :
       /\ damaged \subseteq stale
       /\ Cardinality(damaged) <= 1
       /\ csv = [p \in Paths |->
                   IF \E c \in damaged : p = meta_file(c) THEN Corrupt
                   ELSE IF \E c \in stale : p \in {cache_file(c), meta_file(c)}
                   THEN StaleCache(EmptyDir, CHOOSE c \in stale :
                                     p \in {cache_file(c), meta_file(c)})[p]
                   ELSE Absent]
  /\ meta = Absent
  /\ call = [p \in Procs |-> IdleProc]
  /\ prev = {}
  /\ events = 0

\* process p moves to position pc with the locals in `locals`
Goto(p, pc, locals) ==
  call' = [call EXCEPT ![p] = [locals EXCEPT !.pc = pc]]

\* get_fund_data returns df to its caller
ReturnFrame(p, df) == Goto(p, "idle", [call[p] EXCEPT !.df = df])

\* the presentation layer of process p calls get_fund_data(fund_code)
Start(p) ==
  /\ call[p].pc = "idle"
  /\ call[p].calls < MaxCalls
  /\ \E fund_code \in RaceCodes :
       /\ call' = [call EXCEPT ![p] =
                     [IdleProc EXCEPT !.pc = "exists_cache", !.fund_code = fund_code,
                                      !.calls = call[p].calls + 1]]
       /\ prev' = IF \E q \in Procs \ {p} :
                       call[q].pc # "idle" /\ call[q].fund_code = fund_code
                  THEN prev \cup {fund_code} ELSE prev
  /\ UNCHANGED <<today, remote, csv, meta, events>>

\* line 58, left operand: os.path.exists(cache_file)
ExistsCache(p) ==
  /\ call[p].pc = "exists_cache"
  /\ IF csv[cache_file(call[p].fund_code)].kind # "absent"
     THEN Goto(p, "exists_meta", call[p])
     ELSE Goto(p, "fetch_all", call[p])
  /\ UNCHANGED <<today, remote, csv, meta, prev, events>>

\* line 58, right operand: os.path.exists(meta_file)
ExistsMeta(p) ==
  /\ call[p].pc = "exists_meta"
  /\ IF csv[meta_file(call[p].fund_code)].kind # "absent"
     THEN Goto(p, "read_csv", call[p])
     ELSE Goto(p, "fetch_all", call[p])
  /\ UNCHANGED <<today, remote, csv, meta, prev, events>>

\* lines 61-62: pd.read_csv(cache_file); a file that is gone or cannot be
\* parsed raises into the handler of line 80
ReadCsv(p) ==
  /\ call[p].pc = "read_csv"
  /\ LET file == csv[cache_file(call[p].fund_code)]
     IN IF file.kind = "csv"
        THEN Goto(p, "read_meta", [call[p] EXCEPT !.cached_data = read_csv(file)])
        ELSE Goto(p, "remove_csv", call[p])
  /\ UNCHANGED <<today, remote, csv, meta, prev, events>>

\* lines 65-78 and 130-158: json.load(meta_file), then today's cache is
\* returned, a cache whose last date is today's is returned, and any other
\* cache is to be updated
ReadMeta(p) ==
  /\ call[p].pc = "read_meta"
  /\ LET file == csv[meta_file(call[p].fund_code)]
         cached_data == call[p].cached_data
     IN IF file.kind # "json" THEN Goto(p, "remove_csv", call[p])
        ELSE LET me == [call[p] EXCEPT !.meta_data = file]
             IN IF IsToday(file.last_update, today)
                THEN Goto(p, "idle", [me EXCEPT !.df = cached_data])
                ELSE IF cached_data = EmptyFrame
                THEN Goto(p, "idle", [me EXCEPT !.df = EmptyFrame])
                ELSE IF NeedsUpdate(today, MaxOf(Dates(cached_data)))
                THEN Goto(p, "fetch_new", me)
                ELSE Goto(p, "idle", [me EXCEPT !.df = cached_data])
  /\ UNCHANGED <<today, remote, csv, meta, prev, events>>

\* line 84: os.remove(cache_file); when the file is gone the error is
\* swallowed by line 86 and line 85 is not reached
RemoveCsv(p) ==
  /\ call[p].pc = "remove_csv"
  /\ LET path == cache_file(call[p].fund_code)
     IN IF csv[path].kind = "absent"
        THEN Goto(p, "fetch_all", call[p]) /\ csv' = csv
        ELSE Goto(p, "remove_meta", call[p]) /\ csv' = Write(csv, path, Absent)
  /\ UNCHANGED <<today, remote, meta, prev, events>>

\* line 85: os.remove(meta_file)
RemoveMeta(p) ==
  /\ call[p].pc = "remove_meta"
  /\ Goto(p, "fetch_all", call[p])
  /\ csv' = Write(csv, meta_file(call[p].fund_code), Absent)
  /\ UNCHANGED <<today, remote, meta, prev, events>>

\* lines 142-158: the rows after the last cached date are fetched and merged
FetchNew(p) ==
  /\ call[p].pc = "fetch_new"
  /\ LET cached_data == call[p].cached_data
         f == fetch_fund_data_from_api(
                remote[call[p].fund_code],
                DateStr(MaxOf(Dates(cached_data)) + 1), DateStr(today), NoFault)
     IN IF f.exc THEN ReturnFrame(p, EmptyFrame)
        ELSE IF f.df # EmptyFrame
        THEN Goto(p, "open_csv", [call[p] EXCEPT !.df = Merge(cached_data, f.df)])
        ELSE ReturnFrame(p, cached_data)
  /\ UNCHANGED <<today, remote, csv, meta, prev, events>>

\* lines 160-164: no cache was read: the full history is fetched
FetchAll(p) ==
  /\ call[p].pc = "fetch_all"
  /\ LET f == fetch_fund_data_from_api(remote[call[p].fund_code],
                                       NoDate, NoDate, NoFault)
     IN IF f.exc \/ f.df = EmptyFrame THEN ReturnFrame(p, EmptyFrame)
        ELSE Goto(p, "open_csv", [call[p] EXCEPT !.df = f.df])
  /\ UNCHANGED <<today, remote, csv, meta, prev, events>>

\* line 99, df.to_csv(cache_file): the file is opened for writing
OpenCsv(p) ==
  /\ call[p].pc = "open_csv"
  /\ Goto(p, "to_csv", call[p])
  /\ csv' = Write(csv, cache_file(call[p].fund_code), Truncated)
  /\ UNCHANGED <<today, remote, meta, prev, events>>

\* line 99, df.to_csv(cache_file): the rows are written and the file closed
ToCsv(p) ==
  /\ call[p].pc = "to_csv"
  /\ Goto(p, "open_meta", call[p])
  /\ csv' = Write(csv, cache_file(call[p].fund_code), to_csv(call[p].df))
  /\ UNCHANGED <<today, remote, meta, prev, events>>

\* line 112: open(meta_file, 'w')
OpenMeta(p) ==
  /\ call[p].pc = "open_meta"
  /\ Goto(p, "dump_meta", call[p])
  /\ csv' = Write(csv, meta_file(call[p].fund_code), Truncated)
  /\ UNCHANGED <<today, remote, meta, prev, events>>

\* line 113: json.dump(meta_data, f), then get_fund_data returns df
DumpMeta(p) ==
  /\ call[p].pc = "dump_meta"
  /\ ReturnFrame(p, call[p].df)
  /\ csv' = Write(csv, meta_file(call[p].fund_code), MetaOf(call[p].df, today))
  /\ UNCHANGED <<today, remote, meta, prev, events>>

\* the source posts today's row of one fund
RacePost ==
  /\ events < MaxEvents /\ events' = events + 1
  /\ \E c \in RaceCodes :
       /\ \A i \in 1..Len(remote[c]) : remote[c][i].date # today
       /\ remote' = [remote EXCEPT ![c] = <<Row(today, PostedNav)>> \o remote[c]]
  /\ UNCHANGED <<today, csv, meta, call, prev>>

RaceNext ==
  \/ \E p \in Procs : Start(p)
  \/ \E p \in Procs : ExistsCache(p)
  \/ \E p \in Procs : ExistsMeta(p)
  \/ \E p \in Procs : ReadCsv(p)
  \/ \E p \in Procs : ReadMeta(p)
  \/ \E p \in Procs : RemoveCsv(p)
  \/ \E p \in Procs : RemoveMeta(p)
  \/ \E p \in Procs : FetchNew(p)
  \/ \E p \in Procs : FetchAll(p)
  \/ \E p \in Procs : OpenCsv(p)
  \/ \E p \in Procs : ToCsv(p)
  \/ \E p \in Procs : OpenMeta(p)
  \/ \E p \in Procs : DumpMeta(p)
  \/ RacePost

RaceSpec == RaceInit /\ [][RaceNext]_vars

\* the files of the fund code, as the directory holds them
FilesOf(dir, fund_code) == <<dir[cache_file(fund_code)], dir[meta_file(fund_code)]>>

\* C29: a step of a get_fund_data call for fund code A changes no cache file
\* of any other fund code B, whatever the other processes are doing; the
\* files of distinct fund codes are distinct paths
C29_Independence ==
  [][\A p \in Procs :
       call'[p] # call[p] =>
         \A B \in RaceCodes \ {call'[p].fund_code} :
           /\ FilesOf(csv', B) = FilesOf(csv, B)
           /\ {cache_file(B), meta_file(B)}
                \cap {cache_file(call'[p].fund_code),
                      meta_file(call'[p].fund_code)} = {}]_vars

\* C29 witness: two calls for distinct fund codes are interleaved, each
\* between its series write and its metadata write, and the directory holds
\* the series each of them wrote, which differ
C29_Witness ==
  /\ call[1].fund_code # call[2].fund_code
  /\ call[1].pc = "open_meta" /\ call[2].pc = "dump_meta"
  /\ csv[cache_file(call[1].fund_code)] = to_csv(call[1].df)
  /\ csv[cache_file(call[2].fund_code)] = to_csv(call[2].df)
  /\ call[1].df # call[2].df

\* the metadata does not describe the series it stands next to
Mismatch(series, meta_data) ==
  meta_data.kind = "json" /\ meta_data # MetaOf(series, meta_data.last_update)

\* both files of the fund code are readable and come from different writes
Mixed(dir, fund_code) ==
  /\ dir[cache_file(fund_code)].kind = "csv"
  /\ Mismatch(read_csv(dir[cache_file(fund_code)]), dir[meta_file(fund_code)])

InProgress(fund_code) ==
  \E p \in Procs : call[p].pc # "idle" /\ call[p].fund_code = fund_code

\* C30: the series file and the metadata file of a fund code are left from
\* different writes, or a call has read a series file together with the
\* metadata of another write, only when two get_fund_data calls for that
\* fund code have run at the same time (the witness shows that they can)
C30_RaceNeedsOverlap ==
  /\ \A c \in RaceCodes : (Mixed(csv, c) /\ ~InProgress(c)) => c \in prev
  /\ \A p \in Procs :
       Mismatch(call[p].cached_data, call[p].meta_data) => call[p].fund_code \in prev

\* C30 witness: no call is running, the directory holds for one fund code a
\* series file and a metadata file that come from different writes, and one
\* of the calls had read the series file of one write with the metadata of
\* another
C30_Witness ==
  /\ \A p \in Procs : call[p].pc = "idle"
  /\ \E c \in RaceCodes : Mixed(csv, c)
  /\ \E p \in Procs : Mismatch(call[p].cached_data, call[p].meta_data)

\* ------------------------------------------ the page loops, one page a step
\* LoopSpec runs the while-loops of fetch_fund_data_from_api,
\* fetch_fund_data_segment and _fetch_fund_data one iteration per step, on
\* sources of finitely many rows.  `remote` is the source, `call` the loop:
\* the fetcher, the page it is about to request, the rows it has, and
\* whether it has left the loop.
MaxPage == 8            \* the page numbers told apart; every source ends before MaxPage - 1
MaxLoopRows == 101      \* rows of the longest source the loops are run on

\* what a source answers past its last row: "nodata" (the table with the one
\* row 暂无数据), "empty" (a table with its header only), "unparsable" (no table)
Beyonds == {"nodata", "empty", "unparsable"}

\* the div.pagebtns of the pages of a source: "none" (no such div), "honest"
\* (下一页 while rows remain), "always" (下一页 on every page)
Pagers == {"none", "honest", "always"}

\* one response of F10DataApi.aspx as the three loops read it: nodata (the
\* text holds 暂无数据) and the table, rows and pager in it
PagedServer(server, url) ==
  LET e    == Endpoint(server.rows, url)
      more == Endpoint(server.rows, [url EXCEPT !.page = url.page + 1]).kind = "table"
      pg   == IF server.pager = "none" THEN "none"
              ELSE IF server.pager = "always" \/ more THEN "next" ELSE "last"
  IN IF e.kind = "table"
     THEN [nodata |-> FALSE, page |-> Page(TRUE, Len(e.rows), e.rows, pg)]
     ELSE IF server.beyond = "nodata"
     THEN [nodata |-> TRUE, page |-> Page(TRUE, 1, << >>, pg)]
     ELSE IF server.beyond = "empty"
     THEN [nodata |-> FALSE, page |-> Page(TRUE, 0, << >>, pg)]
     ELSE [nodata |-> FALSE, page |-> NoTable]

\* the loop after one iteration: left (break or return) with `data`, or on
\* to the next page (page += 1).  The pages from MaxPage - 1 on lie past the
\* last row of every source and are answered alike: their numbers are kept
\* by their parity, the page after MaxPage as MaxPage - 1
Leave(loop, data) == [loop EXCEPT !.done = TRUE, !.data = data]
NextPage(loop, data) ==
  [loop EXCEPT !.page = IF loop.page < MaxPage THEN loop.page + 1 ELSE MaxPage - 1,
               !.data = data]

\* one iteration of the loop of fetch_fund_data_from_api (lines 187-245)
ApiStep(server, loop) ==
  LET resp == PagedServer(server, ApiUrl(loop.page))
  IN IF resp.nodata THEN Leave(loop, loop.data)
     ELSE IF ~resp.page.table
     THEN Leave(loop, IF loop.page = 1 THEN EmptyFrame ELSE loop.data)
     ELSE IF resp.page.rows = << >> THEN Leave(loop, loop.data)
     ELSE IF Len(resp.page.rows) < per_page
     THEN Leave(loop, Concat(loop.data, resp.page.rows))
     ELSE NextPage(loop, Concat(loop.data, resp.page.rows))

\* one iteration of the loop of fetch_fund_data_segment (lines 262-314)
SegmentStep(server, loop) ==
  LET resp == PagedServer(server, SegmentUrl(1, FetchDay, loop.page))
  IN IF resp.nodata \/ ~resp.page.table \/ resp.page.rows = << >>
     THEN Leave(loop, loop.data)
     ELSE IF Len(resp.page.rows) < per_page_segment
     THEN Leave(loop, Concat(loop.data, resp.page.rows))
     ELSE NextPage(loop, Concat(loop.data, resp.page.rows))

\* one iteration of the loop of _fetch_fund_data (v2.1 lines 117-209): the
\* header is a tr, so only a response without a table ends it at line 155
LegacyStep(server, loop) ==
  LET page == PagedServer(server, LegacyUrl(1, FetchDay, loop.page)).page
  IN IF ~page.table THEN Leave(loop, loop.data)
     ELSE IF ~HasNextPage(page) THEN Leave(loop, loop.data \o page.rows)
     ELSE NextPage(loop, loop.data \o page.rows)

Fetchers == {"fetch_fund_data_from_api", "fetch_fund_data_segment", "_fetch_fund_data"}

\* the row counts explored: none, one short of a page, a page, one more,
\* two pages, one more
LoopRowCounts(per) == {n \in {0, per - 1, per, per + 1, 2 * per, 2 * per + 1} : n <= MaxLoopRows}

LoopInit ==
  /\ today = FetchDay
  /\ \E n \in LoopRowCounts(per_page) \cup LoopRowCounts(per_page_segment),
        beyond \in Beyonds, pager \in Pagers :
       remote = [kind |-> "paged", rows |-> DailyHistory(n),
                 beyond |-> beyond, pager |-> pager]
  /\ csv = Absent
  /\ meta = Absent
  /\ call = NoCall
  /\ prev = NoCall
  /\ events = 0

\* a fetcher is called: page = 1 and nothing gathered (lines 181-182,
\* 258-259, v2.1 113-114)
StartFetch ==
  /\ ~call.valid
  /\ \E op \in Fetchers :
       call' = [valid |-> TRUE, op |-> op, page |-> 1, data |-> EmptyFrame,
                done |-> FALSE]
  /\ UNCHANGED <<today, remote, csv, meta, prev, events>>

Running(op) == call.valid /\ call.op = op /\ ~call.done

ApiIteration ==
  /\ Running("fetch_fund_data_from_api")
  /\ call' = ApiStep(remote, call)
  /\ UNCHANGED <<today, remote, csv, meta, prev, events>>

SegmentIteration ==
  /\ Running("fetch_fund_data_segment")
  /\ call' = SegmentStep(remote, call)
  /\ UNCHANGED <<today, remote, csv, meta, prev, events>>

LegacyIteration ==
  /\ Running("_fetch_fund_data")
  /\ call' = LegacyStep(remote, call)
  /\ UNCHANGED <<today, remote, csv, meta, prev, events>>

Iterate == ApiIteration \/ SegmentIteration \/ LegacyIteration

LoopNext ==
  \/ StartFetch
  \/ ApiIteration
  \/ SegmentIteration
  \/ LegacyIteration
  \/ (call.valid /\ call.done /\ Return)

\* a loop that can make its next request makes it
LoopSpec == LoopInit /\ [][LoopNext]_vars /\ WF_vars(Iterate)

\* C31: every call of a fetcher on a source of finitely many rows leaves its
\* page loop, whatever the source answers past its last row and whatever
\* pagers its pages carry
C31_LoopsTerminate == call.valid ~> (call.valid /\ call.done)

\* C32: the sub-windows the v2.1 get_fund_data hands to _fetch_fund_data are
\* in ascending order, each starts the day after the previous one ends, each
\* spans at most 90 days and ends no later than end_date, and there are
\* finitely many of them (no more than one per 91 days of the window, and
\* one for the rest)
C32_SubWindowShape ==
  call.valid =>
    LET ws == call.out.windows
    IN /\ \A i \in 1..(Len(ws) - 1) :
            ws[i].s < ws[i + 1].s /\ ws[i + 1].s = ws[i].e + 1
       /\ \A i \in 1..Len(ws) :
            /\ ws[i].s <= ws[i].e
            /\ ws[i].e - ws[i].s <= SegmentDays
            /\ ws[i].e <= call.end
       /\ Len(ws) >= 1 /\ ws[1].s = call.start
       /\ Len(ws) <= (call.end - call.start) \div (SegmentDays + 1) + 1

\* C32 witness: a window of more than 180 days was split into three
\* sub-windows, the last one shorter than 90 days
C32_Witness ==
  /\ call.valid /\ ~call.out.exc
  /\ call.end - call.start > 2 * SegmentDays
  /\ Len(call.out.windows) = 3
  /\ call.out.windows[3].e - call.out.windows[3].s < SegmentDays
  /\ call.out.windows[3].e = call.end

UniqueDates(df) == Cardinality(Dates(df)) = Len(df)

\* C33: whenever the series file of the cache is on disk and readable, the
\* series in it is not empty, has one row per date and is in ascending
\* order of date
C33_PersistedShape ==
  csv.kind = "csv" =>
    LET df == read_csv(csv)
    IN /\ df # EmptyFrame
       /\ UniqueDates(df)
       /\ Ascending(df)

\* C33 witness: a stale cache was topped up with fetched rows that overlap
\* it, and the merged series is on disk
C33_Witness ==
  /\ StaleBefore /\ call.out.saved
  /\ csv.kind = "csv" /\ csv = call.out.csv
  /\ Dates(call.out.new_data) \cap Dates(CachedBefore) # {}
  /\ Len(read_csv(csv)) > Len(CachedBefore)

\* the metadata describes the series: its row count and its first and last
\* date
Describes(meta_data, df) ==
  /\ meta_data.data_count = Len(df)
  /\ df # EmptyFrame =>
       /\ meta_data.date_range.start = MinOf(Dates(df))
       /\ meta_data.date_range.end = MaxOf(Dates(df))

\* C34: after a call that attempted a save, completed or not, the metadata
\* file on disk describes the series file on disk
C34_MetaDescribesSeries ==
  (call.valid /\ call.out.saved /\ csv.kind = "csv" /\ meta.kind = "json") =>
    Describes(meta, read_csv(csv))

\* the request of page 1 of the call failed, or its payload had no table
FirstPageFailed == call.valid /\ call.fault.page = 1

\* C35: when the cache is stale and the first page of the top-up fails, the
\* call hands back the cached series (filled when asked to), not an empty
\* frame, raises nothing, and leaves both cache files as they were
C35_StaleSurvivesFailedTopUp ==
  (StaleBefore /\ FirstPageFailed) =>
    /\ ~call.out.exc /\ ~call.out.handled
    /\ call.out.unfilled = CachedBefore
    /\ call.out.df # EmptyFrame
    /\ ~call.fill_missing => call.out.df = CachedBefore
    /\ ~call.out.saved
    /\ csv = call.csv /\ meta = call.meta

\* C35 witness: the source holds a row newer than the stale cache, the
\* request of page 1 raised, and the cached rows came back
C35_Witness ==
  /\ StaleBefore /\ FirstPageFailed /\ call.fault.kind = "error"
  /\ Len(call.out.trace) = 1
  /\ remote # << >> /\ Head(remote).date > MaxOf(Dates(CachedBefore))
  /\ call.out.df = CachedBefore

\* the dates of the rows of the source whose nav is a number
RemoteDates == {remote[i].date : i \in {j \in 1..Len(remote) : remote[j].nav # NaN}}

\* C36: a cache entry created by a from-scratch fetch holds every record the
\* source held at the time of the call
C36_MissSavesWholeHistory ==
  (MissBefore /\ call.out.saved /\ call.wfault = "none") =>
    /\ csv.kind = "csv" /\ meta.kind = "json"
    /\ RemoteDates \subseteq DatesOnDisk(csv)

\* C37: for a window of at least 3 records the volatility shown by
\* display_fund_analysis is calculate_volatility of the navs of the window
C37_WindowVolatility ==
  (/\ call.valid /\ call.op = "display_fund_analysis"
   /\ call.out.window.shown = "metrics" /\ call.out.window.branch = "nav"
   /\ call.out.window.trading_days >= 3) =>
    call.out.window.volatility =
      calculate_volatility(NavOf(call.out.window.period_df), periods_per_year)

\* --------------------------------------- the favorites of the dashboard
\* FavSpec runs src/app/main.py as Streamlit does: one run of the script per
\* UI event (and the run after st.rerun()).  `call` is st.session_state with
\* the text of the fund-code input and the page selected in the side bar,
\* `meta` the file favorite_funds.json, `remote` the answer of the fund
\* search.
NoText == << >>             \* the empty string
NoData == [kind |-> "None"]

\* the texts typed into the fund-code input
Texts == {NoText, <<1>>, <<1, 1>>}

\* the pages of the side bar: 基金查询, 自选基金, and the pages under way
NavOptions == {"fund_query", "favorite_funds", "other"}

\* lines 412-419: load_favorite_funds()
load_favorite_funds(file) ==
  IF file.kind = "json" THEN file.favorite_funds ELSE << >>

\* lines 421-423: the file save_favorite_funds() leaves
save_favorite_funds(favorite_funds) ==
  [kind |-> "json", favorite_funds |-> favorite_funds]

\* a dictionary without the key, and with the key set
DictDel(d, key) == [k \in DOMAIN d \ {key} |-> d[k]]
DictSet(d, key, value) == [k \in DOMAIN d \cup {key} |-> IF k = key THEN value ELSE d[k]]

\* lines 126-145: the session state of a new session
NewSession ==
  [valid |-> TRUE, fund_code |-> NoText, fund_data |-> NoData,
   favorite_funds |-> << >>, detail_fund_code |-> NoText,
   text |-> NoText, nav |-> "fund_query", event |-> "open"]

\* lines 426-427 and 448-450: the head of every run of the script
RunHead(ss, file) ==
  LET loaded == IF DOMAIN ss.favorite_funds = {}
                THEN [ss EXCEPT !.favorite_funds = load_favorite_funds(file)]
                ELSE ss
  IN IF loaded.nav = "fund_query"
     THEN [loaded EXCEPT !.detail_fund_code = NoText]
     ELSE loaded

\* lines 546-556: the query page fetches the fund of st.session_state.fund_code
\* when no fund_data is held
RunTail(ss) ==
  IF ss.nav = "fund_query" /\ ss.fund_code # NoText /\ ss.fund_data = NoData
  THEN [ss EXCEPT !.fund_data =
          [kind |-> "data", fund_info |-> get_fund_info(remote, ss.fund_code).info]]
  ELSE ss

\* a run of the script in which no button is pressed
Run(ss, file) == RunTail(RunHead(ss, file))

FavResponses ==
  {[kind |-> "error", datas |-> << >>],
   [kind |-> "json",
    datas |-> <<Item(<<1>>, "A", "G", "stock"), Item(<<1, 1>>, "B", "G", "stock")>>]}

FavInit ==
  /\ today = StartDay
  /\ remote \in FavResponses
  /\ csv = Absent
  /\ meta \in {Absent, Corrupt}
  /\ call = NoCall
  /\ prev = NoCall
  /\ events = 0

\* a browser session opens the dashboard
OpenSession ==
  /\ ~call.valid
  /\ call' = Run(NewSession, meta)
  /\ UNCHANGED <<today, remote, csv, meta, prev, events>>

\* the browser session ends
CloseSession ==
  /\ call.valid
  /\ call' = NoCall
  /\ UNCHANGED <<today, remote, csv, meta, prev, events>>

\* lines 508-511: a fund code is typed into the input of the query page
TypeCode ==
  /\ call.valid /\ call.nav = "fund_query"
  /\ \E text \in Texts \ {call.text} :
       call' = Run([call EXCEPT !.text = text, !.event = "type"], meta)
  /\ UNCHANGED <<today, remote, csv, meta, prev, events>>

\* lines 513 and 539-556: 开始分析, and the run after st.rerun()
PressAnalyze ==
  /\ call.valid /\ call.nav = "fund_query"
  /\ LET ss == [RunHead(call, meta) EXCEPT !.event = "analyze"]
     IN call' = IF ss.text # NoText
                THEN Run([ss EXCEPT !.fund_code = ss.text, !.fund_data = NoData], meta)
                ELSE RunTail(ss)
  /\ UNCHANGED <<today, remote, csv, meta, prev, events>>

\* lines 524-536: 加入自选, shown when the text is not a key of favorite_funds
PressAdd ==
  /\ call.valid /\ call.nav = "fund_query"
  /\ LET ss == [RunHead(call, meta) EXCEPT !.event = "add"]
         fund_code == ss.text
     IN /\ fund_code \notin DOMAIN ss.favorite_funds
        /\ IF fund_code # NoText /\ ss.fund_data # NoData
           THEN LET favorite_funds ==
                      DictSet(ss.favorite_funds, fund_code,
                              [fund_info |-> ss.fund_data.fund_info, last_update |-> today])
                    file == save_favorite_funds(favorite_funds)
                IN /\ meta' = file
                   /\ call' = Run([ss EXCEPT !.favorite_funds = favorite_funds], file)
           ELSE /\ meta' = meta
                /\ call' = RunTail([ss EXCEPT !.event = "warning"])
  /\ UNCHANGED <<today, remote, csv, prev, events>>

\* lines 517-522: 移出自选 on the query page, shown when the text is a key of
\* favorite_funds
PressRemove ==
  /\ call.valid /\ call.nav = "fund_query"
  /\ LET ss == [RunHead(call, meta) EXCEPT !.event = "remove"]
     IN /\ ss.text \in DOMAIN ss.favorite_funds
        /\ LET favorite_funds == DictDel(ss.favorite_funds, ss.text)
               file == save_favorite_funds(favorite_funds)
           IN /\ meta' = file
              /\ call' = Run([ss EXCEPT !.favorite_funds = favorite_funds], file)
  /\ UNCHANGED <<today, remote, csv, prev, events>>

\* lines 434-452: another page is selected in the side bar; the input of the
\* query page is drawn anew with value=st.session_state.fund_code (line 509)
Navigate ==
  /\ call.valid
  /\ \E nav \in NavOptions \ {call.nav} :
       call' = Run([call EXCEPT !.nav = nav, !.text = call.fund_code,
                                !.event = "navigate"], meta)
  /\ UNCHANGED <<today, remote, csv, meta, prev, events>>

\* lines 865-868: 移出自选 on a card of the favorites page
RemoveCard ==
  /\ call.valid /\ call.nav = "favorite_funds"
  /\ LET ss == [RunHead(call, meta) EXCEPT !.event = "remove"]
     IN \E fund_code \in DOMAIN ss.favorite_funds :
          LET favorite_funds == DictDel(ss.favorite_funds, fund_code)
              file == save_favorite_funds(favorite_funds)
          IN /\ meta' = file
             /\ call' = Run([ss EXCEPT !.favorite_funds = favorite_funds], file)
  /\ UNCHANGED <<today, remote, csv, prev, events>>

\* lines 861-863 and 147-152: 查看详情 on a card of the favorites page
ViewDetail ==
  /\ call.valid /\ call.nav = "favorite_funds"
  /\ LET ss == [RunHead(call, meta) EXCEPT !.event = "detail"]
     IN \E fund_code \in DOMAIN ss.favorite_funds :
          call' = Run([ss EXCEPT !.detail_fund_code = fund_code,
                                 !.fund_data = NoData], meta)
  /\ UNCHANGED <<today, remote, csv, meta, prev, events>>

\* lines 481-484: 关闭 on the detail card
CloseDetail ==
  /\ call.valid /\ call.detail_fund_code # NoText
  /\ call' = Run([RunHead(call, meta) EXCEPT !.detail_fund_code = NoText,
                                             !.event = "close"], meta)
  /\ UNCHANGED <<today, remote, csv, meta, prev, events>>

FavNext ==
  \/ OpenSession
  \/ CloseSession
  \/ TypeCode
  \/ PressAnalyze
  \/ PressAdd
  \/ PressRemove
  \/ Navigate
  \/ RemoveCard
  \/ ViewDetail
  \/ CloseDetail

FavSpec == FavInit /\ [][FavNext]_vars

\* C38: every entry of favorite_funds under key c holds the fund_info of
\* fund code c, and after an add or a remove the favorites file holds the
\* favorite_funds of the session
C38_FavoritesIntegrity ==
  call.valid =>
    /\ \A c \in DOMAIN call.favorite_funds :
         call.favorite_funds[c].fund_info.fund_code = c
    /\ call.event \in {"add", "remove"} =>
         meta = save_favorite_funds(call.favorite_funds)

\* ------------------------------------------------------- the snake game
\* SnakeSpec runs the main loop of snake_game.py, one frame per step: the
\* key events of the frame in their order, then the move, the meal and the
\* collision test.  `call` is the game (snake, food, score, game_over) at the
\* end of a frame, `prev` the move of the frame before.  The board of
\* 600 by 400 pixels is kept to 2*HalfCols by 2*HalfRows cells of GRID_SIZE
\* pixels, so that its centre is a cell as in the source.
HalfCols == 2
HalfRows == 1
MaxKeys == 2                \* key presses handled within one frame
MaxScore == 2               \* meals of one game

GRID_SIZE == 20
WIDTH == 2 * HalfCols * GRID_SIZE
HEIGHT == 2 * HalfRows * GRID_SIZE

\* line 18: class Direction
LEFT == <<-1, 0>>
RIGHT == <<1, 0>>
UP == <<0, -1>>
DOWN == <<0, 1>>

\* the keys of a frame: the arrows, R, Q and any other key
Keys == {"K_LEFT", "K_RIGHT", "K_UP", "K_DOWN", "K_r", "K_q", "K_a"}

\* lines 58-59: the dictionary directions
directions ==
  [key \in {"K_LEFT", "K_RIGHT", "K_UP", "K_DOWN"} |->
     CASE key = "K_LEFT" -> LEFT
       [] key = "K_RIGHT" -> RIGHT
       [] key = "K_UP" -> UP
       [] OTHER -> DOWN]

\* line 60: (-d[0], -d[1])
Opposite(d) == <<0 - d[1], 0 - d[2]>>

\* lines 40-41: the positions random.randrange can draw
Cells ==
  {<<x * GRID_SIZE, y * GRID_SIZE>> : x \in 0..(2 * HalfCols - 1), y \in 0..(2 * HalfRows - 1)}

Cover(body) == {body[i] : i \in 1..Len(body)}

\* lines 38-42: the positions Food.random_position can return while the
\* global snake has this body (none when the body covers the board: the loop
\* does not end)
random_position_anywhere(snake_body) == Cells
random_position(snake_body) == Cells \ Cover(snake_body)

\* lines 21-24: Snake()
Snake == [body |-> << <<WIDTH \div 2, HEIGHT \div 2>> >>, direction |-> RIGHT, grow |-> FALSE]

\* lines 26-32: Snake.move
move(snake) ==
  LET head == snake.body[1]
      new_head == <<(head[1] + snake.direction[1] * GRID_SIZE) % WIDTH,
                    (head[2] + snake.direction[2] * GRID_SIZE) % HEIGHT>>
      grown == <<new_head>> \o snake.body
  IN [snake EXCEPT !.body = IF snake.grow THEN grown ELSE SubSeq(grown, 1, Len(grown) - 1),
                   !.grow = FALSE]

NoMove == <<0, 0>>

\* lines 44-46: the games the module starts with
NewGames(old_body) ==
  {[valid |-> TRUE, snake |-> Snake, food |-> position, score |-> 0,
    game_over |-> FALSE, moved |-> NoMove, restarted |-> FALSE, quit |-> FALSE] :
     position \in random_position(old_body)}

\* lines 53-61: one KEYDOWN event; on R the tuple Snake(), Food(), 0, False is
\* built before `snake` is bound, so that Food() draws against the body of
\* the snake of the game that ended
KeyDown(game, key) ==
  IF game.quit THEN {game}
  ELSE IF game.game_over
  THEN IF key = "K_r"
       THEN {[g EXCEPT !.restarted = TRUE] : g \in NewGames(game.snake.body)}
       ELSE IF key = "K_q" THEN {[game EXCEPT !.quit = TRUE]} ELSE {game}
  ELSE IF key \in DOMAIN directions /\ game.snake.direction # Opposite(directions[key])
       THEN {[game EXCEPT !.snake.direction = directions[key]]}
       ELSE {game}

\* lines 51-61: the games the loop over the events of a frame can leave when
\* pygame.event.get() holds at most n key presses, handled one after another
RECURSIVE HandleEvents(_, _)
HandleEvents(games, n) ==
  IF n = 0 THEN games
  ELSE HandleEvents(games \cup UNION {KeyDown(g, key) : g \in games, key \in Keys}, n - 1)

\* lines 63-67: the move, the meal and the collision test of a frame
Advance(game) ==
  IF game.game_over THEN {[game EXCEPT !.moved = NoMove]}
  ELSE LET snake == move(game.snake)
           game_over == Len(snake.body) # Cardinality(Cover(snake.body))
       IN IF snake.body[1] = game.food
          THEN {[game EXCEPT !.snake = [snake EXCEPT !.grow = TRUE],
                             !.food = position,
                             !.score = game.score + 1,
                             !.game_over = game_over,
                             !.moved = game.snake.direction] :
                  position \in IF game.score < MaxScore
                               THEN random_position(snake.body) ELSE {}}
          ELSE {[game EXCEPT !.snake = snake, !.game_over = game_over,
                             !.moved = game.snake.direction]}

SnakeInit ==
  /\ today = StartDay
  /\ remote = [kind |-> "none"]
  /\ csv = Absent
  /\ meta = Absent
  /\ call \in NewGames(Snake.body)
  /\ prev = NoCall
  /\ events = 0

\* lines 48-79: one frame of the main loop
Frame ==
  /\ call.valid
  /\ \E handled \in HandleEvents({[call EXCEPT !.restarted = FALSE]}, MaxKeys) :
       /\ ~handled.quit
       /\ \E game \in Advance(handled) : call' = game
  /\ prev' = [valid |-> TRUE, moved |-> call.moved, length |-> Len(call.snake.body)]
  /\ UNCHANGED <<today, remote, csv, meta, events>>

\* lines 52 and 56: the window is closed, or Q is pressed after the game ended
Quit ==
  /\ call.valid
  /\ call' = NoCall
  /\ prev' = NoCall
  /\ UNCHANGED <<today, remote, csv, meta, events>>

SnakeNext == Frame \/ Quit

SnakeSpec == SnakeInit /\ [][SnakeNext]_vars

\* C39: a snake that was longer than one segment before the frame never
\* moves in the exact opposite of the direction it moved in on the frame
\* before, however many keys the frame handled
C39_NoReversal ==
  (call.valid /\ prev.valid /\ call.moved # NoMove /\ prev.moved # NoMove
     /\ prev.length > 1)
    => call.moved # Opposite(prev.moved)

\* C40: at the end of every frame, the frame of a restart with R included,
\* the food lies on a cell of the board that no segment of the snake occupies
C40_FoodOffSnake ==
  call.valid => /\ call.food \in Cells
                /\ call.food \notin Cover(call.snake.body)

\* C40 witness: the game was restarted with R in this frame, the food was
\* drawn on the cell the new snake started from, and the snake has moved
C40_Witness ==
  /\ call.valid /\ call.restarted
  /\ call.food = Snake.body[1]
  /\ call.moved # NoMove

====
